---- MODULE Spec2Model ----
(***************************************************************************)
(* LearnSphereOSS: the exam-series generation loop                         *)
(* (ExamSimulatorService.generateExamSeries), the local persistence        *)
(* layer (DatabaseService over Dexie/IndexedDB), the response              *)
(* normalizers, getOssResponse, the learning-road and solver services,     *)
(* the exam-taking view and the generation screens.                        *)
(*                                                                         *)
(* Texts are sequences of one-character strings.  JavaScript values are    *)
(* records tagged by the field t: "null", "undef", "nan", "num", "str",    *)
(* "arr", "obj", and "tmpl" for a string built from a template literal.    *)
(***************************************************************************)
EXTENDS Integers, Sequences, FiniteSets, TLC

(* ------------------------------------------------------------------ *)
(* Bounds of the model                                                  *)
(* ------------------------------------------------------------------ *)
MaxExams == 3

\* series generated for the store; series j has j exams
MaxSeries == 2

\* database operations started in one behaviour
MaxOps == 3

(* ------------------------------------------------------------------ *)
(* JavaScript values                                                    *)
(* ------------------------------------------------------------------ *)
JNull == [t |-> "null"]

JUndef == [t |-> "undef"]

JNaN == [t |-> "nan"]

JNum(n) == [t |-> "num", n |-> n]

JStr(s) == [t |-> "str", s |-> s]

JArr(items) == [t |-> "arr", items |-> items]

JObj(kv) == [t |-> "obj", kv |-> kv]

\* v is falsy for the || operator
Falsy(v) ==
  \/ v.t \in {"null", "undef", "nan"}
  \/ v.t = "num" /\ v.n = 0
  \/ v.t = "str" /\ v.s = <<>>

\* a || b
OrElse(a, b) == IF Falsy(a) THEN b ELSE a

DigitChars == <<"0", "1", "2", "3", "4", "5", "6", "7", "8", "9">>

IsDigit(c) == \E d \in 1..10 : DigitChars[d] = c

DigitVal(c) == (CHOOSE d \in 1..10 : DigitChars[d] = c) - 1

RECURSIVE NatToChars(_)
\* String(n) for a natural number
NatToChars(n) ==
  IF n < 10 THEN <<DigitChars[n + 1]>>
  ELSE NatToChars(n \div 10) \o <<DigitChars[(n % 10) + 1]>>

\* own property lookup: index of key k in the property list, 0 when absent
KeyIndex(kv, k) ==
  IF \E i \in 1..Len(kv) : kv[i][1] = k
  THEN CHOOSE i \in 1..Len(kv) : kv[i][1] = k
  ELSE 0

\* obj[k] = v on a property list: an existing key keeps its place
ObjSet(kv, k, v) ==
  LET i == KeyIndex(kv, k)
  IN IF i = 0 THEN Append(kv, <<k, v>>) ELSE [kv EXCEPT ![i] = <<k, v>>]

\* v.k: undefined unless v is an object owning k.  (null.k and
\* undefined.k throw; the callers test Throws first.)
GetProp(v, k) ==
  IF v.t = "obj" /\ KeyIndex(v.kv, k) # 0 THEN v.kv[KeyIndex(v.kv, k)][2]
  ELSE JUndef

\* reading a property of v throws a TypeError
PropThrows(v) == v.t \in {"null", "undef"}

(* ------------------------------------------------------------------ *)
(* JSON.stringify and JSON.parse                                        *)
(*                                                                      *)
(* The subset of JSON the model's texts use: objects, arrays, strings   *)
(* without escapes, unsigned integers and null.  A run of letters that  *)
(* no operation looks inside (a key, a sentence) is one element of a    *)
(* text.                                                                *)
(* ------------------------------------------------------------------ *)
NullChars == <<"n", "u", "l", "l">>

WhiteSpace == {" ", "\n"}

RECURSIVE JsonStringify(_)
RECURSIVE StringifyItems(_, _)
RECURSIVE StringifyProps(_, _)
\* JSON.stringify(v): NaN and (inside an array) undefined become null
JsonStringify(v) ==
  CASE v.t = "num" -> NatToChars(v.n)
    [] v.t = "str" -> <<"\"">> \o v.s \o <<"\"">>
    [] v.t = "arr" -> <<"[">> \o StringifyItems(v.items, 1) \o <<"]">>
    [] v.t = "obj" ->
         <<"{">> \o StringifyProps(SelectSeq(v.kv, LAMBDA p : p[2].t # "undef"), 1) \o <<"}">>
    [] OTHER -> NullChars

StringifyItems(items, i) ==
  IF i > Len(items) THEN <<>>
  ELSE (IF i > 1 THEN <<",">> ELSE <<>>)
       \o JsonStringify(items[i]) \o StringifyItems(items, i + 1)

StringifyProps(kv, i) ==
  IF i > Len(kv) THEN <<>>
  ELSE (IF i > 1 THEN <<",">> ELSE <<>>)
       \o <<"\"">> \o kv[i][1] \o <<"\"", ":">>
       \o JsonStringify(kv[i][2]) \o StringifyProps(kv, i + 1)

ParseFail == [ok |-> FALSE, v |-> JNull, i |-> 0]

ParseOk(v, i) == [ok |-> TRUE, v |-> v, i |-> i]

RECURSIVE SkipWs(_, _)
\* index of the first non-blank element at or after i
SkipWs(s, i) ==
  IF i <= Len(s) /\ s[i] \in WhiteSpace THEN SkipWs(s, i + 1) ELSE i

RECURSIVE ParseDigits(_, _, _)
ParseDigits(s, i, acc) ==
  IF i <= Len(s) /\ IsDigit(s[i])
  THEN ParseDigits(s, i + 1, 10 * acc + DigitVal(s[i]))
  ELSE ParseOk(JNum(acc), i)

\* a number: a lone 0, or a digit 1..9 and the digits after it
ParseNumber(s, i) ==
  IF s[i] = "0" THEN ParseOk(JNum(0), i + 1) ELSE ParseDigits(s, i, 0)

\* a string: from the quote at i to the next quote
ParseString(s, i) ==
  IF \E j \in (i + 1)..Len(s) : s[j] = "\""
  THEN LET j == CHOOSE j \in (i + 1)..Len(s) :
                  /\ s[j] = "\""
                  /\ \A k \in (i + 1)..(j - 1) : s[k] # "\""
       IN ParseOk(JStr(SubSeq(s, i + 1, j - 1)), j + 1)
  ELSE ParseFail

RECURSIVE ParseValue(_, _)
RECURSIVE ParseElements(_, _, _)
RECURSIVE ParseMembers(_, _, _)
ParseValue(s, i0) ==
  LET i == SkipWs(s, i0)
  IN IF i > Len(s) THEN ParseFail
     ELSE CASE s[i] = "{" ->
                 (LET k == SkipWs(s, i + 1)
                  IN IF k <= Len(s) /\ s[k] = "}" THEN ParseOk(JObj(<<>>), k + 1)
                     ELSE ParseMembers(s, k, <<>>))
            [] s[i] = "[" ->
                 (LET k == SkipWs(s, i + 1)
                  IN IF k <= Len(s) /\ s[k] = "]" THEN ParseOk(JArr(<<>>), k + 1)
                     ELSE ParseElements(s, k, <<>>))
            [] s[i] = "\"" -> ParseString(s, i)
            [] IsDigit(s[i]) -> ParseNumber(s, i)
            [] s[i] = "n" ->
                 IF SubSeq(s, i, i + 3) = NullChars THEN ParseOk(JNull, i + 4)
                 ELSE ParseFail
            [] OTHER -> ParseFail

ParseElements(s, i, acc) ==
  LET r == ParseValue(s, i)
  IN IF ~r.ok THEN ParseFail
     ELSE LET k == SkipWs(s, r.i)
          IN IF k > Len(s) THEN ParseFail
             ELSE IF s[k] = "," THEN ParseElements(s, k + 1, Append(acc, r.v))
             ELSE IF s[k] = "]" THEN ParseOk(JArr(Append(acc, r.v)), k + 1)
             ELSE ParseFail

ParseMembers(s, i0, acc) ==
  LET i == SkipWs(s, i0)
  IN IF i > Len(s) \/ s[i] # "\"" THEN ParseFail
     ELSE LET key == ParseString(s, i)
          IN IF ~key.ok THEN ParseFail
             ELSE LET c == SkipWs(s, key.i)
                  IN IF c > Len(s) \/ s[c] # ":" THEN ParseFail
                     ELSE LET r == ParseValue(s, c + 1)
                          IN IF ~r.ok THEN ParseFail
                             ELSE LET k == SkipWs(s, r.i)
                                      kv == ObjSet(acc, key.v.s, r.v)
                                  IN IF k > Len(s) THEN ParseFail
                                     ELSE IF s[k] = "," THEN ParseMembers(s, k + 1, kv)
                                     ELSE IF s[k] = "}" THEN ParseOk(JObj(kv), k + 1)
                                     ELSE ParseFail

\* JSON.parse(s): [ok |-> FALSE] stands for the SyntaxError it throws
JsonParse(s) ==
  LET r == ParseValue(s, 1)
  IN IF r.ok /\ SkipWs(s, r.i) > Len(s) THEN [ok |-> TRUE, v |-> r.v]
     ELSE [ok |-> FALSE, v |-> JNull]

(* ------------------------------------------------------------------ *)
(* String helpers with JavaScript's 0-based indices                     *)
(* ------------------------------------------------------------------ *)
RECURSIVE TrimStart(_)
TrimStart(s) ==
  IF s # <<>> /\ Head(s) \in WhiteSpace THEN TrimStart(Tail(s)) ELSE s

RECURSIVE TrimEnd(_)
TrimEnd(s) ==
  IF s # <<>> /\ s[Len(s)] \in WhiteSpace THEN TrimEnd(SubSeq(s, 1, Len(s) - 1)) ELSE s

\* s.trim()
Trim(s) == TrimEnd(TrimStart(s))

\* s.startsWith(p)
StartsWith(s, p) == Len(s) >= Len(p) /\ SubSeq(s, 1, Len(p)) = p

\* s.endsWith(p)
EndsWith(s, p) == Len(s) >= Len(p) /\ SubSeq(s, Len(s) - Len(p) + 1, Len(s)) = p

\* s.substring(a, b) for 0 <= a <= b
Substring(s, a, b) == SubSeq(s, a + 1, IF b > Len(s) THEN Len(s) ELSE b)

\* s.indexOf(c): -1 when absent
IndexOf(s, c) ==
  IF \E i \in 1..Len(s) : s[i] = c
  THEN (CHOOSE i \in 1..Len(s) : s[i] = c /\ \A j \in 1..(i - 1) : s[j] # c) - 1
  ELSE -1

\* s.lastIndexOf(c): -1 when absent
LastIndexOf(s, c) ==
  IF \E i \in 1..Len(s) : s[i] = c
  THEN (CHOOSE i \in 1..Len(s) : s[i] = c /\ \A j \in (i + 1)..Len(s) : s[j] # c) - 1
  ELSE -1

\* the backtick character, which a TLA+ string cannot hold
BackTick == "BACKTICK"

Fence == <<BackTick, BackTick, BackTick>>

FenceJson == Fence \o <<"j", "s", "o", "n">>

\* the text after the leading fence is dropped
StripOpeningFence(s) ==
  IF StartsWith(s, FenceJson) THEN Substring(s, 7, Len(s))
  ELSE IF StartsWith(s, Fence) THEN Substring(s, 3, Len(s))
  ELSE s

StripClosingFence(s) ==
  IF EndsWith(s, Fence) THEN Substring(s, 0, Len(s) - 3) ELSE s

\* the slice from the first opener to the last matching closer
SliceJson(s) ==
  LET openBrace == IndexOf(s, "{")
      openBracket == IndexOf(s, "[")
      closeBrace == LastIndexOf(s, "}")
      closeBracket == LastIndexOf(s, "]")
      isObject == openBrace # -1 /\ (openBracket = -1 \/ openBrace < openBracket)
      startIndex == IF isObject THEN openBrace
                    ELSE IF openBracket # -1 THEN openBracket ELSE -1
      endIndex == IF isObject THEN closeBrace
                  ELSE IF openBracket # -1 THEN closeBracket ELSE -1
  IN IF startIndex # -1 /\ endIndex # -1 /\ endIndex > startIndex
     THEN Substring(s, startIndex, endIndex + 1)
     ELSE s

\* ExamSimulatorService.cleanJsonResponse
cleanJsonResponse(text) ==
  Trim(SliceJson(Trim(StripClosingFence(StripOpeningFence(Trim(text))))))

(* ------------------------------------------------------------------ *)
(* ExamSimulatorService: building one exam from a completion text       *)
(* ------------------------------------------------------------------ *)
\* Infinity, as 100 / 0 gives
JInf == [t |-> "inf"]

\* a template literal: the kind of text and the values interpolated
Tmpl(kind, args) == [t |-> "tmpl", kind |-> kind, args |-> args]

\* a property name
K(name) == <<name>>

\* a Date object, by its time value
JDate(ms) == [t |-> "date", ms |-> ms]

\* date.toISOString(): the text that denotes the same instant
ToISOString(date) == [t |-> "iso", ms |-> date.ms]

\* new Date(isoText)
NewDate(iso) == [t |-> "date", ms |-> iso.ms]

DifficultyLabels ==
  <<"Foundation", "Beginner", "Intermediate", "Advanced", "Expert", "Master", "Genius">>

\* mutant: find never matches, the first entry is used
getDifficultyConfig_First(level) ==
  [label |-> DifficultyLabels[1], description |-> Tmpl("configDescription", <<1>>)]

\* configs[level] || configs[1]
getDifficultyConfig(level) ==
  IF level \in 1..7
  THEN [label |-> DifficultyLabels[level], description |-> Tmpl("configDescription", <<level>>)]
  ELSE [label |-> DifficultyLabels[1], description |-> Tmpl("configDescription", <<1>>)]

\* Math.round(100 / questionsPerExam)
DefaultPoints(settings) ==
  LET n == settings.questionsPerExam
  IN IF n.t # "num" THEN JNaN
     ELSE IF n.n = 0 THEN JInf
     ELSE JNum((200 + n.n) \div (2 * n.n))

\* {...q}: the own enumerable properties of q
SpreadProps(q) ==
  CASE q.t = "obj" -> q.kv
    [] q.t = "arr" -> [i \in 1..Len(q.items) |-> <<NatToChars(i - 1), q.items[i]>>]
    [] q.t = "str" -> [i \in 1..Len(q.s) |-> <<NatToChars(i - 1), JStr(<<q.s[i]>>)>>]
    [] OTHER -> <<>>

\* `q${level}_${index + 1}`
DefaultQuestionId(level, index) ==
  JStr(<<"q">> \o NatToChars(level) \o <<"_">> \o NatToChars(index + 1))

\* the callback of examData.questions.map, index counted from 0
MapQuestion(q, level, index, settings) ==
  LET withId == ObjSet(SpreadProps(q), K("id"),
                       OrElse(GetProp(q, K("id")), DefaultQuestionId(level, index)))
  IN JObj(ObjSet(withId, K("points"),
                 OrElse(GetProp(q, K("points")), DefaultPoints(settings))))

\* the statements of the inner try throw a TypeError on this parsed value
ExamDataThrows(examData) ==
  \/ PropThrows(examData)
  \/ GetProp(examData, K("questions")).t # "arr"
  \/ \E i \in 1..Len(GetProp(examData, K("questions")).items) :
       PropThrows(GetProp(examData, K("questions")).items[i])

\* the exam object of the parse-success branch
ParsedExam(examData, level, seriesTopic, settings, examTime, now) ==
  LET difficultyConfig == getDifficultyConfig(level)
      questions == GetProp(examData, K("questions")).items
  IN [id |-> <<"exam", now, level>>,
      title |-> OrElse(GetProp(examData, K("title")),
                       Tmpl("levelTitle", <<level, difficultyConfig.label, seriesTopic>>)),
      description |-> OrElse(GetProp(examData, K("description")),
                             difficultyConfig.description),
      instructions |-> OrElse(GetProp(examData, K("instructions")),
                              Tmpl("levelInstructions", <<level, difficultyConfig.description>>)),
      questions |-> [i \in 1..Len(questions) |->
                       MapQuestion(questions[i], level, i - 1, settings)],
      totalPoints |-> OrElse(GetProp(examData, K("totalPoints")), JNum(100)),
      estimatedTime |-> examTime,
      difficultyLevel |-> level,
      difficultyLabel |-> difficultyConfig.label,
      createdAt |-> JDate(now)]

\* the single question of a fallback exam
FallbackQuestion(level, seriesTopic) ==
  JObj(<< <<K("id"), JStr(<<"fallback_q">> \o NatToChars(level) \o <<"_1">>)>>,
          <<K("question"),
            JStr(<<"Sample Level ">> \o NatToChars(level) \o <<" question for ">> \o seriesTopic)>>,
          <<K("type"), JStr(<<"multiple-choice">>)>>,
          <<K("options"), JArr(<<JStr(<<"Option A">>), JStr(<<"Option B">>),
                                 JStr(<<"Option C">>), JStr(<<"Option D">>)>>)>>,
          <<K("correctAnswer"), JNum(0)>>,
          <<K("points"), JNum(100)>>,
          <<K("explanation"), JStr(<<"This is a fallback question due to parsing error.">>)>>,
          <<K("difficulty"), JStr(<<"Medium">>)>> >>)

\* mutant: the fallback takes the label of the first level
FallbackExam_FirstLabel(level, seriesTopic, settings, now) ==
  [id |-> <<"fallback_exam", now, level>>,
   title |-> Tmpl("levelTitle", <<level, getDifficultyConfig(1).label, seriesTopic>>),
   description |-> getDifficultyConfig(1).description,
   instructions |-> Tmpl("practiceInstructions", <<level>>),
   questions |-> <<FallbackQuestion(level, seriesTopic)>>,
   totalPoints |-> JNum(100),
   estimatedTime |-> settings.timePerExam,
   difficultyLevel |-> level,
   difficultyLabel |-> getDifficultyConfig(1).label,
   createdAt |-> JDate(now)]

\* the exam object of the catch (parseError) branch
FallbackExam(level, seriesTopic, settings, now) ==
  LET difficultyConfig == getDifficultyConfig(level)
  IN [id |-> <<"fallback_exam", now, level>>,
      title |-> Tmpl("levelTitle", <<level, difficultyConfig.label, seriesTopic>>),
      description |-> difficultyConfig.description,
      instructions |-> Tmpl("practiceInstructions", <<level>>),
      questions |-> <<FallbackQuestion(level, seriesTopic)>>,
      totalPoints |-> JNum(100),
      estimatedTime |-> settings.timePerExam,
      difficultyLevel |-> level,
      difficultyLabel |-> difficultyConfig.label,
      createdAt |-> JDate(now)]

\* the inner try of the loop body takes its catch branch on this text
ParseFails(text) ==
  LET parsed == JsonParse(cleanJsonResponse(text))
  IN ~parsed.ok \/ ExamDataThrows(parsed.v)

\* mutant: only a syntax error takes the catch branch; a parsed value of
\* the wrong shape gives an exam without questions
BuildExam_SyntaxOnly(text, level, seriesTopic, settings, examTime, now) ==
  IF ~JsonParse(cleanJsonResponse(text)).ok
  THEN FallbackExam(level, seriesTopic, settings, now)
  ELSE IF ExamDataThrows(JsonParse(cleanJsonResponse(text)).v)
  THEN [FallbackExam(level, seriesTopic, settings, now) EXCEPT !.questions = <<>>]
  ELSE ParsedExam(JsonParse(cleanJsonResponse(text)).v, level, seriesTopic,
                  settings, examTime, now)

\* the exam pushed for one level, given the text the completion returned
BuildExam(text, level, seriesTopic, settings, examTime, now) ==
  IF ParseFails(text)
  THEN FallbackExam(level, seriesTopic, settings, now)
  ELSE ParsedExam(JsonParse(cleanJsonResponse(text)).v, level, seriesTopic,
                  settings, examTime, now)

\* the ExamSeries object assembled after the loop
AssembleSeries(seriesTopic, description, settings, exams, now) ==
  [id |-> <<"series", now>>,
   topic |-> seriesTopic,
   description |-> OrElse(JStr(description), Tmpl("seriesDescription", <<settings.numberOfExams>>)),
   exams |-> exams,
   totalExams |-> settings.numberOfExams,
   createdAt |-> JDate(now)]

(* ------------------------------------------------------------------ *)
(* Inputs of the generation runs                                        *)
(* ------------------------------------------------------------------ *)
\* what the model may send back: an exam whose second question carries no points
ValidExamData ==
  JObj(<< <<K("title"), JStr(<<"Algebra quiz">>)>>,
          <<K("questions"),
            JArr(<<JObj(<< <<K("id"), JStr(<<"a">>)>>,
                          <<K("correctAnswer"), JNum(1)>>,
                          <<K("points"), JNum(50)>> >>),
                   JObj(<< <<K("question"), JStr(<<"x">>)>> >>)>>)>>,
          <<K("totalPoints"), JNum(100)>> >>)

TextValid == JsonStringify(ValidExamData)

\* an exam without questions or title, inside a json fence
TextFenced ==
  <<"\n">> \o FenceJson \o <<"\n">>
  \o JsonStringify(JObj(<< <<K("questions"), JArr(<<>>)>> >>))
  \o <<"\n">> \o Fence \o <<" ">>

\* the exam with prose around it
TextProse == <<"Here is the exam:", " ">> \o TextValid \o <<"\n", "Good luck">>

\* cut off before the closing brackets
TextTruncated == SubSeq(TextValid, 1, Len(TextValid) - 3)

TextEmpty == <<>>

TextRefusal == <<"I cannot help with that">>

\* well-formed JSON of the wrong shape
TextNoQuestions == JsonStringify(JObj(<< <<K("title"), JStr(<<"T">>)>> >>))

TextQuestionsNotAList ==
  JsonStringify(JObj(<< <<K("questions"), JNum(5)>> >>))

TextNullQuestion == JsonStringify(JObj(<< <<K("questions"), JArr(<<JNull>>)>> >>))

TextNull == NullChars

Responses ==
  {TextValid, TextFenced, TextProse, TextTruncated, TextEmpty, TextRefusal,
   TextNoQuestions, TextQuestionsNotAList, TextNullQuestion, TextNull}

\* a thrown value: isError tells whether it is an instance of Error
Thrown(isError, message) == [isError |-> isError, message |-> message]

\* what getOssResponse throws: the key check's Error, fetch's TypeError,
\* response.json()'s SyntaxError, the TypeError of data.choices[0]
CompletionErrors ==
  {Thrown(TRUE, "Groq API key is missing."),
   Thrown(TRUE, "Failed to fetch"),
   Thrown(TRUE, "Cannot read properties of undefined")}

InputError ==
  Thrown(TRUE, "Please provide either an exam description or upload reference materials.")

FileError == Thrown(TRUE, "Failed to process file")

UnexpectedError ==
  Thrown(TRUE, "An unexpected error occurred while generating the exam series.")

Topics == {<<"Algebra Basics">>}

Descriptions == {<<>>, <<" ">>, <<"covers linear equations">>}

MaxFiles == 1

\* the UI passes {numberOfExams}; a caller may add the optional fields
SettingsSet ==
  {[numberOfExams |-> n, questionsPerExam |-> q, timePerExam |-> tp] :
     n \in 1..MaxExams,
     q \in {JUndef, JNum(3)},
     tp \in {JUndef}}

ExamTimes == {JNum(30)}

NoValue == [t |-> "none"]

(* ------------------------------------------------------------------ *)
(* State                                                                *)
(* ------------------------------------------------------------------ *)
VARIABLES
  gPc,        \* the generateExamSeries call: idle, files, await, delay, resolved, rejected
  gArgs,      \* its arguments
  gFilesDone, \* files encoded so far
  gLevel,     \* the loop variable level
  gExams,     \* the local array exams
  gOutcome,   \* the series it resolved to, or the error it rejected with
  gNow,       \* Date.now()
  gCalls,     \* history: the levels getOssResponse was called for, in order
  gTexts,     \* history: the texts getOssResponse returned, in order
  gThrown,    \* history: what getOssResponse threw
  gDelays     \* history: the inter-level delays waited

VARIABLES
  examSeries,     \* table examSeries: id -> StoredExamSeries
  simulatorExams, \* table simulatorExams: id -> StoredExam
  practiceExams,  \* table practiceExams: id -> StoredPracticeExam
  learningPaths,  \* table learningPaths: id -> StoredLearningPath
  tx,             \* the read-write transaction in progress, or NoValue
  rd,             \* the getExamSeries call between its two reads, or NoValue
  clock,          \* operations started so far; the time is StoreEpoch + clock
  last            \* history: the operation that completed last

VARIABLES
  jPayload,  \* history: the JSON value the text wraps
  jText,     \* the text last passed to a cleanJsonResponse
  jCleaned,  \* what it returned
  jService   \* the service whose cleanJsonResponse it was

VARIABLES
  oPc,        \* getOssResponse: idle, fetching, parsing, returned, threw
  oPrompt,    \* its prompt
  oResponse,  \* the HTTP response fetch resolved to, or NoValue
  oNetwork,   \* history: fetch rejected
  oResult     \* the text it returned or the error it threw

VARIABLES
  rOp,       \* the generation operation called, "none" before the call
  rPc,       \* idle, extracting, completing, resolved, rejected
  rArgs,     \* its arguments
  rFile,     \* analyzeProblems: the file being processed
  rProblems, \* analyzeProblems*: allProblems
  rResult,   \* the record returned or the error thrown
  rThrew,    \* history: a capability threw during the call
  rTexts,    \* history: the texts the completion returned
  rNow       \* Date.now()

VARIABLES
  vView,     \* ExamSimulatorView: currentView
  vState,    \* examTakingState, or NoValue for null
  vInterval, \* the running interval and the state its closure captured, or NoValue
  vExam,     \* the exam object of the examSeries prop, or NoValue before the view is shown
  vResults,  \* examResults, or NoValue for null
  vPending,  \* handleSubmitExam calls awaiting updateExamScore
  vClock,    \* seconds elapsed
  vAttempt,  \* history: attempts started
  vSubmits,  \* history: handleSubmitExam runs of the current attempt
  vWrites    \* history: updateExamScore invocations of the current attempt

VARIABLES
  uFlow,     \* the generation flow the user started, "none" before
  uPc,       \* idle, awaiting, saving, settled
  uError,    \* generationError / processingError, or NoValue for null
  uContent,  \* the content the flow put on screen, or NoValue
  uBusy,     \* isGenerating / isLoadingMaterial / isLoadingQuiz / isProcessing
  uScreen    \* the view or step the component shows

VARIABLES
  uLoads,    \* ExamSimulator: the series ids of the getExamSeries calls in flight
  uTaken     \* the series whose exam the simulator view is taking, or NoValue

storeVars ==
  <<examSeries, simulatorExams, practiceExams, learningPaths, tx, rd, clock, last>>

genVars ==
  <<gPc, gArgs, gFilesDone, gLevel, gExams, gOutcome, gNow, gCalls, gTexts, gThrown, gDelays>>

cleanVars == <<jPayload, jText, jCleaned, jService>>

ossVars == <<oPc, oPrompt, oResponse, oNetwork, oResult>>

roadVars ==
  <<rOp, rPc, rArgs, rFile, rProblems, rResult, rThrew, rTexts, rNow>>

viewVars ==
  <<vView, vState, vInterval, vExam, vResults, vPending, vClock, vAttempt, vSubmits, vWrites>>

uiVars ==
  <<uFlow, uPc, uError, uContent, uBusy, uScreen>>

loadVars ==
  <<uLoads, uTaken>>

\* what the actions of each machine leave unchanged: the other machines
besidesGen == <<storeVars, cleanVars, ossVars, roadVars, viewVars, uiVars, loadVars>>

besidesStore == <<genVars, cleanVars, ossVars, roadVars, viewVars, uiVars, loadVars>>

besidesClean == <<genVars, storeVars, ossVars, roadVars, viewVars, uiVars, loadVars>>

besidesOss == <<genVars, storeVars, cleanVars, roadVars, viewVars, uiVars, loadVars>>

besidesRoad == <<genVars, storeVars, cleanVars, ossVars, viewVars, uiVars, loadVars>>

besidesView == <<genVars, storeVars, cleanVars, ossVars, roadVars, uiVars, loadVars>>

\* the view's writes go to the store
besidesViewAndStore == <<genVars, cleanVars, ossVars, roadVars, uiVars, loadVars>>

besidesUi == <<genVars, storeVars, cleanVars, ossVars, roadVars, viewVars, loadVars>>

\* a handler of the UI that calls a learning-road or solver operation
besidesUiAndRoad == <<genVars, storeVars, cleanVars, ossVars, viewVars, loadVars>>

\* a handler of the UI that calls generateExamSeries
besidesUiAndGen == <<storeVars, cleanVars, ossVars, roadVars, viewVars, loadVars>>

besidesLoad == <<genVars, storeVars, cleanVars, ossVars, roadVars, viewVars, uiVars>>

besidesUiAndLoad == <<genVars, storeVars, cleanVars, ossVars, roadVars, viewVars>>

(* ------------------------------------------------------------------ *)
(* ExamSimulatorService.generateExamSeries, one step per await          *)
(* ------------------------------------------------------------------ *)
GenInit ==
  /\ gPc = "idle"
  /\ gArgs = NoValue
  /\ gFilesDone = 0
  /\ gLevel = 0
  /\ gExams = <<>>
  /\ gOutcome = NoValue
  /\ gNow = 1
  /\ gCalls = <<>>
  /\ gTexts = <<>>
  /\ gThrown = NoValue
  /\ gDelays = 0

\* mutant: the outer catch wraps whatever it caught
RethrowOuter_Wrap(error) == UnexpectedError

\* the outer catch: an Error is rethrown, anything else is replaced
RethrowOuter(error) == IF error.isError THEN error ELSE UnexpectedError

\* mutant: the loop runs while level < numberOfExams
EnterLevel_OffByOne(args, level, exams, now) ==
  IF level < args.settings.numberOfExams
  THEN /\ gPc' = "await"
       /\ gLevel' = level
       /\ gCalls' = Append(gCalls, level)
       /\ gOutcome' = gOutcome
  ELSE /\ gPc' = "resolved"
       /\ gLevel' = level
       /\ gCalls' = gCalls
       /\ gOutcome' = AssembleSeries(args.seriesTopic, args.description,
                                     args.settings, exams, now)

\* the loop head at `level`: the next getOssResponse call is issued, or,
\* past the last level, the series is assembled and returned
EnterLevel(args, level, exams, now) ==
  IF level <= args.settings.numberOfExams
  THEN /\ gPc' = "await"
       /\ gLevel' = level
       /\ gCalls' = Append(gCalls, level)
       /\ gOutcome' = gOutcome
  ELSE /\ gPc' = "resolved"
       /\ gLevel' = level
       /\ gCalls' = gCalls
       /\ gOutcome' = AssembleSeries(args.seriesTopic, args.description,
                                     args.settings, exams, now)

\* mutant: the description is not trimmed
InputMissing_NoTrim(description, files) == description = <<>> /\ files = 0

\* !examContentDescription.trim() && files.length === 0
InputMissing(description, files) == Trim(description) = <<>> /\ files = 0

\* the call: the precondition, then the first await
GenCall(seriesTopic, description, files, settings, examTime) ==
  LET args == [seriesTopic |-> seriesTopic, description |-> description,
               files |-> files, settings |-> settings, examTime |-> examTime]
  IN /\ gPc = "idle"
     /\ gArgs' = args
     /\ IF InputMissing(description, files)
        THEN /\ gPc' = "rejected"
             /\ gOutcome' = InputError
             /\ UNCHANGED <<gLevel, gCalls>>
        ELSE IF files > 0
        THEN /\ gPc' = "files"
             /\ UNCHANGED <<gOutcome, gLevel, gCalls>>
        ELSE EnterLevel(args, 1, <<>>, gNow)
     /\ UNCHANGED <<gFilesDone, gExams, gNow, gTexts, gThrown, gDelays>>

\* generateExamSeries is called
GenStart(seriesTopic, description, files, settings, examTime) ==
  /\ GenCall(seriesTopic, description, files, settings, examTime)
  /\ UNCHANGED besidesGen

\* await this.fileToBase64(file) resolves
GenFileEncoded ==
  /\ gPc = "files"
  /\ gFilesDone' = gFilesDone + 1
  /\ IF gFilesDone + 1 < gArgs.files
     THEN UNCHANGED <<gPc, gOutcome, gLevel, gCalls>>
     ELSE EnterLevel(gArgs, 1, <<>>, gNow)
  /\ UNCHANGED <<besidesGen, gArgs, gExams, gNow, gTexts, gThrown, gDelays>>

\* await this.fileToBase64(file) rejects: the inner catch throws a new Error
GenFileFails ==
  /\ gPc = "files"
  /\ gPc' = "rejected"
  /\ gOutcome' = RethrowOuter(FileError)
  /\ UNCHANGED <<besidesGen, gArgs, gFilesDone, gLevel, gExams, gNow, gCalls, gTexts,
                 gThrown, gDelays>>

\* mutant: the delay follows every level, the last one too
DelayFollows_EveryLevel(level, numberOfExams) == level <= numberOfExams

\* if (level < settings.numberOfExams) await the 1000 ms timer
DelayFollows(level, numberOfExams) == level < numberOfExams

\* await getOssResponse(prompt) returns text: parse or fall back, push,
\* then the delay, or after the last level the return
GenCompletionReturns(text) ==
  LET now == gNow + 1
      exam == BuildExam(text, gLevel, gArgs.seriesTopic, gArgs.settings,
                        gArgs.examTime, now)
      exams == Append(gExams, exam)
  IN /\ gPc = "await"
     /\ gNow' = now
     /\ gTexts' = Append(gTexts, text)
     /\ gExams' = exams
     /\ IF DelayFollows(gLevel, gArgs.settings.numberOfExams)
        THEN /\ gPc' = "delay"
             /\ UNCHANGED <<gLevel, gCalls, gOutcome>>
        ELSE EnterLevel(gArgs, gLevel + 1, exams, now)
     /\ UNCHANGED <<besidesGen, gArgs, gFilesDone, gThrown, gDelays>>

\* mutant: a throwing completion is treated like unparseable text
GenCompletionThrows_FallsBack(error) ==
  LET now == gNow + 1
      exams == Append(gExams, FallbackExam(gLevel, gArgs.seriesTopic,
                                           gArgs.settings, now))
  IN /\ gPc = "await"
     /\ gThrown' = error
     /\ gNow' = now
     /\ gExams' = exams
     /\ IF DelayFollows(gLevel, gArgs.settings.numberOfExams)
        THEN /\ gPc' = "delay"
             /\ UNCHANGED <<gLevel, gCalls, gOutcome>>
        ELSE EnterLevel(gArgs, gLevel + 1, exams, now)
     /\ UNCHANGED <<besidesGen, gArgs, gFilesDone, gTexts, gDelays>>

\* await getOssResponse(prompt) throws: the outer catch rethrows
GenCompletionThrows(error) ==
  /\ gPc = "await"
  /\ gThrown' = error
  /\ gPc' = "rejected"
  /\ gOutcome' = RethrowOuter(error)
  /\ UNCHANGED <<besidesGen, gArgs, gFilesDone, gLevel, gExams, gNow, gCalls, gTexts, gDelays>>

\* the setTimeout of 1000 ms fires: level++ and the next iteration
GenDelayElapsed ==
  /\ gPc = "delay"
  /\ gDelays' = gDelays + 1
  /\ gNow' = gNow + 1
  /\ EnterLevel(gArgs, gLevel + 1, gExams, gNow + 1)
  /\ UNCHANGED <<besidesGen, gArgs, gFilesDone, gExams, gTexts, gThrown>>

GenNext ==
  \/ \E seriesTopic \in Topics, description \in Descriptions, files \in 0..MaxFiles,
        settings \in SettingsSet, examTime \in ExamTimes :
       GenStart(seriesTopic, description, files, settings, examTime)
  \/ GenFileEncoded
  \/ GenFileFails
  \/ \E text \in Responses : GenCompletionReturns(text)
  \/ \E error \in CompletionErrors : GenCompletionThrows(error)
  \/ GenDelayElapsed

(* ------------------------------------------------------------------ *)
(* What a whole run resolves to when every completion returns text      *)
(* ------------------------------------------------------------------ *)
\* a run that starts at time t0 pushes the exam of level i at t0 + 2i - 1:
\* one tick for each completion and one for each delay
GenerateSeries(args, texts, t0) ==
  LET n == args.settings.numberOfExams
      exams == [i \in 1..n |->
                  BuildExam(texts[i], i, args.seriesTopic, args.settings,
                            args.examTime, t0 + 2 * i - 1)]
  IN AssembleSeries(args.seriesTopic, args.description, args.settings, exams,
                    t0 + 2 * n - 1)


(* ------------------------------------------------------------------ *)
(* Inputs of the store                                                  *)
(* ------------------------------------------------------------------ *)
\* the UI's settings object: only numberOfExams is set
UiSettings(n) == [numberOfExams |-> n, questionsPerExam |-> JUndef, timePerExam |-> JUndef]

StoreArgs(n) ==
  [seriesTopic |-> <<"Algebra Basics">>, description |-> <<"covers linear equations">>,
   files |-> 0, settings |-> UiSettings(n), examTime |-> JNum(30)]

\* the texts the completion returned for the successive levels of run j
LevelTexts == <<TextValid, TextTruncated, TextFenced>>

StoreTexts(j, n) == [i \in 1..n |-> LevelTexts[((i + j - 2) % Len(LevelTexts)) + 1]]

\* runs follow one another: run j starts when run j - 1 is over, so no two
\* runs share a Date.now()
SeriesStart(j) == 1 + 2 * MaxSeries * (j - 1)

\* the series that run j resolved to; run j asked for j exams
StoredSeries(j) == GenerateSeries(StoreArgs(j), StoreTexts(j, j), SeriesStart(j))

StoreSeries == {StoredSeries(j) : j \in 1..MaxSeries}

SeriesIds == {S.id : S \in StoreSeries}

ExamIds == UNION {{S.exams[i].id : i \in 1..Len(S.exams)} : S \in StoreSeries}

\* an exam id no series holds
UnknownExamId == <<"exam", 0, 1>>

\* (score, timeTaken) pairs of a submitted attempt
ScoreInputs == {<<50, 7>>, <<100, 3>>}

\* a GeneratedExam of the practice-exam feature
PracticeExamInput ==
  [id |-> <<"practice", 1>>,
   title |-> JStr(<<"Practice">>),
   description |-> JStr(<<"d">>),
   instructions |-> JStr(<<"i">>),
   questions |-> <<JObj(<< <<K("id"), JNum(1)>> >>)>>,
   totalPoints |-> JNum(100),
   estimatedTime |-> JNum(60),
   difficulty |-> JStr(<<"Mixed">>),
   answerKey |-> JUndef,
   createdAt |-> JDate(1)]

\* a learning path as generateLearningPath returns it: no createdAt
LearningPathInput ==
  [id |-> <<"path", 1>>,
   topic |-> JStr(<<"Algebra">>),
   description |-> JStr(<<"d">>),
   totalEstimatedTime |-> JStr(<<"2 weeks">>),
   difficulty |-> JStr(<<"Beginner">>),
   steps |-> JArr(<<JObj(<< <<K("step"), JNum(1)>>, <<K("title"), JStr(<<"a">>)>> >>),
                    JObj(<< <<K("step"), JNum(2)>>, <<K("title"), JStr(<<"b">>)>> >>)>>),
   createdAt |-> JUndef]

\* a learning path whose three steps are numbered 3, 1, 1: out of order,
\* with a duplicate and without a 2
LearningPathUnordered ==
  [id |-> <<"path", 2>>,
   topic |-> JStr(<<"Algebra">>),
   description |-> JStr(<<"d">>),
   totalEstimatedTime |-> JStr(<<"2 weeks">>),
   difficulty |-> JStr(<<"Beginner">>),
   steps |-> JArr(<<JObj(<< <<K("step"), JNum(3)>>, <<K("title"), JStr(<<"a">>)>> >>),
                    JObj(<< <<K("step"), JNum(1)>>, <<K("title"), JStr(<<"b">>)>> >>),
                    JObj(<< <<K("step"), JNum(1)>>, <<K("title"), JStr(<<"c">>)>> >>)>>),
   createdAt |-> JUndef]

LearningPathInputs == {LearningPathInput, LearningPathUnordered}

PathIds == {P.id : P \in LearningPathInputs}

\* the time of the first database operation: after the last run
StoreEpoch == SeriesStart(MaxSeries + 1)

(* ------------------------------------------------------------------ *)
(* DatabaseService over Dexie                                           *)
(* ------------------------------------------------------------------ *)
EmptyTable == <<>>

\* table.put(row): insert or replace by primary key
Put(table, row) ==
  [k \in DOMAIN table \cup {row.id} |-> IF k = row.id THEN row ELSE table[k]]

\* table.delete(key)
Delete(table, key) == [k \in DOMAIN table \ {key} |-> table[k]]

\* a deleteExamSeries that forgets the exams of the series
DeleteWhereSeriesId_Nothing(table, seriesId) == table

\* table.where(field).equals(value).delete()
DeleteWhereSeriesId(table, seriesId) ==
  [k \in {x \in DOMAIN table : table[x].seriesId # seriesId} |-> table[k]]

\* the four tables as one value
Tables ==
  [examSeries |-> examSeries, simulatorExams |-> simulatorExams,
   practiceExams |-> practiceExams, learningPaths |-> learningPaths]

\* new Date() in the store
Now == JDate(StoreEpoch + clock)

\* the tables a transaction of each operation names
TxScope(op) ==
  IF op = "clearAllData"
  THEN {"examSeries", "simulatorExams", "practiceExams", "learningPaths"}
  ELSE {"examSeries", "simulatorExams"}

\* a request on the table waits while a read-write transaction holds it
Locked(tableName) == tx # NoValue /\ tableName \in TxScope(tx.op)

\* the row saveExamSeries puts into examSeries
SeriesRow(series, settings, time, now) ==
  [id |-> series.id,
   topic |-> series.topic,
   description |-> series.description,
   totalExams |-> series.totalExams,
   settings |-> settings,
   time |-> time,
   createdAt |-> ToISOString(series.createdAt),
   updatedAt |-> ToISOString(now)]

\* the row saveExamSeries puts into simulatorExams for one exam
ExamRow(series, exam) ==
  [id |-> exam.id,
   seriesId |-> series.id,
   title |-> exam.title,
   description |-> exam.description,
   instructions |-> exam.instructions,
   totalPoints |-> exam.totalPoints,
   estimatedTime |-> exam.estimatedTime,
   difficultyLevel |-> exam.difficultyLevel,
   difficultyLabel |-> exam.difficultyLabel,
   questionsData |-> JsonStringify(JArr(exam.questions)),
   score |-> JUndef,
   completedAt |-> JUndef,
   timeTaken |-> JUndef,
   createdAt |-> ToISOString(exam.createdAt)]

\* the last completed operation
Completed(op, arg, outcome, value, before, raced) ==
  [op |-> op, arg |-> arg, outcome |-> outcome, value |-> value,
   before |-> before, raced |-> raced, requests |-> 0, failed |-> FALSE]

\* the operation ended because a request of the underlying store failed
Failed(completed) == [completed EXCEPT !.failed = TRUE]

\* a transaction ended after the requests it had made
Ended(t, outcome) ==
  [Completed(t.op, t.arg, outcome, NoValue, t.undo, FALSE) EXCEPT !.requests = t.step]

\* a write committed while getExamSeries is between its two reads
MarkRaced == IF rd = NoValue THEN rd ELSE [rd EXCEPT !.raced = TRUE]

StoreInit ==
  /\ examSeries = EmptyTable
  /\ simulatorExams = EmptyTable
  /\ practiceExams = EmptyTable
  /\ learningPaths = EmptyTable
  /\ tx = NoValue
  /\ rd = NoValue
  /\ clock = 0
  /\ last = Completed("none", NoValue, "none", NoValue,
                      [examSeries |-> EmptyTable, simulatorExams |-> EmptyTable,
                       practiceExams |-> EmptyTable, learningPaths |-> EmptyTable],
                      FALSE)

\* db.transaction('rw', ...): the transaction starts once no other holds its tables
BeginTransaction(op, arg) ==
  /\ tx = NoValue
  /\ clock < MaxOps
  /\ clock' = clock + 1
  /\ tx' = [op |-> op, arg |-> arg, undo |-> Tables, step |-> 0]
  /\ UNCHANGED <<besidesStore, examSeries, simulatorExams, practiceExams, learningPaths, rd, last>>

\* the requests a transaction makes before it commits
TxSteps(t) ==
  CASE t.op = "saveExamSeries" -> 1 + Len(t.arg.series.exams)
    [] t.op = "deleteExamSeries" -> 2
    [] t.op = "clearAllData" -> 4

\* saveExamSeries(examSeries, settings, time) opens its transaction
SaveExamSeriesBegin(series, settings, time) ==
  /\ BeginTransaction("saveExamSeries", [series |-> series, settings |-> settings, time |-> time])

\* the next put of saveExamSeries: the series row, then one row per exam
SaveExamSeriesPut ==
  /\ tx # NoValue
  /\ tx.op = "saveExamSeries"
  /\ tx.step < TxSteps(tx)
  /\ IF tx.step = 0
     THEN /\ examSeries' = Put(examSeries,
                               SeriesRow(tx.arg.series, tx.arg.settings, tx.arg.time, Now))
          /\ UNCHANGED simulatorExams
     ELSE /\ simulatorExams' = Put(simulatorExams,
                                   ExamRow(tx.arg.series, tx.arg.series.exams[tx.step]))
          /\ UNCHANGED examSeries
  /\ tx' = [tx EXCEPT !.step = tx.step + 1]
  /\ UNCHANGED <<besidesStore, practiceExams, learningPaths, rd, clock, last>>

\* deleteExamSeries(seriesId) opens its transaction
DeleteExamSeriesBegin(seriesId) ==
  /\ BeginTransaction("deleteExamSeries", seriesId)

\* the next request of deleteExamSeries: the exams of the series, then its row
DeleteExamSeriesStep ==
  /\ tx # NoValue
  /\ tx.op = "deleteExamSeries"
  /\ tx.step < TxSteps(tx)
  /\ IF tx.step = 0
     THEN /\ simulatorExams' = DeleteWhereSeriesId(simulatorExams, tx.arg)
          /\ UNCHANGED examSeries
     ELSE /\ examSeries' = Delete(examSeries, tx.arg)
          /\ UNCHANGED simulatorExams
  /\ tx' = [tx EXCEPT !.step = tx.step + 1]
  /\ UNCHANGED <<besidesStore, practiceExams, learningPaths, rd, clock, last>>

\* clearAllData() opens its transaction
ClearAllDataBegin ==
  /\ BeginTransaction("clearAllData", NoValue)

\* the next clear(): simulatorExams, examSeries, practiceExams, learningPaths
ClearAllDataStep ==
  /\ tx # NoValue
  /\ tx.op = "clearAllData"
  /\ tx.step < TxSteps(tx)
  /\ simulatorExams' = IF tx.step = 0 THEN EmptyTable ELSE simulatorExams
  /\ examSeries' = IF tx.step = 1 THEN EmptyTable ELSE examSeries
  /\ practiceExams' = IF tx.step = 2 THEN EmptyTable ELSE practiceExams
  /\ learningPaths' = IF tx.step = 3 THEN EmptyTable ELSE learningPaths
  /\ tx' = [tx EXCEPT !.step = tx.step + 1]
  /\ UNCHANGED <<besidesStore, rd, clock, last>>

\* the transaction's callback is over and the transaction commits: the
\* operation resolves
TxCommit ==
  /\ tx # NoValue
  /\ tx.step = TxSteps(tx)
  /\ tx' = NoValue
  /\ rd' = MarkRaced
  /\ last' = Ended(tx, "resolved")
  /\ UNCHANGED <<besidesStore, examSeries, simulatorExams, practiceExams, learningPaths, clock>>

\* the tables after a transaction aborted: what they were when it began
\* a save that is not wrapped in a transaction: a failure leaves what was written
RolledBack_KeepsWrites(t) == Tables

\* the tables after the transaction aborts
RolledBack(t) == t.undo

\* a request of the transaction, or its commit, fails: the transaction
\* aborts, the catch rethrows, the operation rejects
TxAbort ==
  /\ tx # NoValue
  /\ examSeries' = RolledBack(tx).examSeries
  /\ simulatorExams' = RolledBack(tx).simulatorExams
  /\ practiceExams' = RolledBack(tx).practiceExams
  /\ learningPaths' = RolledBack(tx).learningPaths
  /\ tx' = NoValue
  /\ last' = Failed(Ended(tx, "rejected"))
  /\ UNCHANGED <<besidesStore, rd, clock>>

\* an update that adds the new attempt to the stored one
UpdatedExamRow_Accumulates(row, score, timeTaken, now) ==
  [row EXCEPT !.score = IF row.score = JUndef THEN JNum(score) ELSE JNum(row.score.n + score),
              !.completedAt = ToISOString(now),
              !.timeTaken = IF row.timeTaken = JUndef THEN JNum(timeTaken)
                            ELSE JNum(row.timeTaken.n + timeTaken)]

\* the row after update(examId, {score, completedAt, timeTaken})
UpdatedExamRow(row, score, timeTaken, now) ==
  [row EXCEPT !.score = JNum(score),
              !.completedAt = ToISOString(now),
              !.timeTaken = JNum(timeTaken)]

\* a put in place of the update: the row is replaced by the three fields
UpdateScore_Put(table, examId, score, timeTaken, now) ==
  Put(table, [id |-> examId, score |-> JNum(score), completedAt |-> ToISOString(now),
              timeTaken |-> JNum(timeTaken)])

\* table.update(key, changes): changes the row of that key, if there is one
UpdateScore(table, examId, score, timeTaken, now) ==
  IF examId \in DOMAIN table
  THEN [table EXCEPT ![examId] = UpdatedExamRow(table[examId], score, timeTaken, now)]
  ELSE table

\* a single request outside any transaction starts
BeginRequest(tableName) ==
  /\ ~Locked(tableName)
  /\ clock < MaxOps
  /\ clock' = clock + 1

\* mutant: an update that matches no row makes the call reject
UpdateExamScore_RejectsUnknown(examId, score, timeTaken) ==
  /\ BeginRequest("simulatorExams")
  /\ simulatorExams' = UpdateScore(simulatorExams, examId, score, timeTaken, Now)
  /\ rd' = MarkRaced
  /\ last' = Completed("updateExamScore",
                       [examId |-> examId, score |-> score, timeTaken |-> timeTaken, at |-> Now],
                       IF examId \in DOMAIN simulatorExams THEN "resolved" ELSE "rejected",
                       NoValue, Tables, FALSE)
  /\ UNCHANGED <<besidesStore, examSeries, practiceExams, learningPaths, tx>>

\* updateExamScore(examId, score, timeTaken) resolves
UpdateExamScore(examId, score, timeTaken) ==
  /\ BeginRequest("simulatorExams")
  /\ simulatorExams' = UpdateScore(simulatorExams, examId, score, timeTaken, Now)
  /\ rd' = MarkRaced
  /\ last' = Completed("updateExamScore",
                       [examId |-> examId, score |-> score, timeTaken |-> timeTaken, at |-> Now],
                       "resolved", NoValue, Tables, FALSE)
  /\ UNCHANGED <<besidesStore, examSeries, practiceExams, learningPaths, tx>>

\* the update request fails: the catch rethrows
UpdateExamScoreFails(examId, score, timeTaken) ==
  /\ BeginRequest("simulatorExams")
  /\ last' = Failed(Completed("updateExamScore",
                              [examId |-> examId, score |-> score, timeTaken |-> timeTaken,
                               at |-> Now],
                              "rejected", NoValue, Tables, FALSE))
  /\ UNCHANGED <<besidesStore, examSeries, simulatorExams, practiceExams, learningPaths, tx, rd>>

RECURSIVE SortByDifficultyLevel(_)
\* sortBy('difficultyLevel') of a set of rows
SortByDifficultyLevel(rows) ==
  IF rows = {} THEN <<>>
  ELSE LET first == CHOOSE r \in rows :
                      \A o \in rows : r.difficultyLevel <= o.difficultyLevel
       IN <<first>> \o SortByDifficultyLevel(rows \ {first})

\* simulatorExams.where('seriesId').equals(seriesId).sortBy('difficultyLevel')
ExamRowsOf(table, seriesId) ==
  SortByDifficultyLevel({table[k] : k \in {x \in DOMAIN table : table[x].seriesId = seriesId}})

\* the SimulatorExam that getExamSeries builds from a row
ToSimulatorExam(row) ==
  [id |-> row.id,
   title |-> row.title,
   description |-> row.description,
   instructions |-> row.instructions,
   questions |-> JsonParse(row.questionsData).v.items,
   totalPoints |-> row.totalPoints,
   estimatedTime |-> row.estimatedTime,
   difficultyLevel |-> row.difficultyLevel,
   difficultyLabel |-> row.difficultyLabel,
   createdAt |-> NewDate(row.createdAt)]

\* what getExamSeries returns from the series row and the exam rows it read
LoadedSeries(seriesRow, examRows) ==
  IF \E i \in 1..Len(examRows) : ~JsonParse(examRows[i].questionsData).ok
  THEN JNull
  ELSE [id |-> seriesRow.id,
        topic |-> seriesRow.topic,
        description |-> seriesRow.description,
        exams |-> [i \in 1..Len(examRows) |-> ToSimulatorExam(examRows[i])],
        totalExams |-> seriesRow.totalExams,
        createdAt |-> NewDate(seriesRow.createdAt)]

\* getExamSeries(seriesId): the first read; no row, and it returns null
GetExamSeriesReadSeries(seriesId) ==
  /\ rd = NoValue
  /\ BeginRequest("examSeries")
  /\ IF seriesId \in DOMAIN examSeries
     THEN /\ rd' = [seriesId |-> seriesId, series |-> examSeries[seriesId],
                    before |-> Tables, raced |-> FALSE]
          /\ UNCHANGED last
     ELSE /\ rd' = NoValue
          /\ last' = Completed("getExamSeries", seriesId, "resolved", JNull, Tables, FALSE)
  /\ UNCHANGED <<besidesStore, examSeries, simulatorExams, practiceExams, learningPaths, tx>>

\* getExamSeries: the second read, the join and the return
GetExamSeriesReadExams ==
  /\ rd # NoValue
  /\ ~Locked("simulatorExams")
  /\ rd' = NoValue
  /\ last' = Completed("getExamSeries", rd.seriesId, "resolved",
                       LoadedSeries(rd.series, ExamRowsOf(simulatorExams, rd.seriesId)),
                       rd.before, rd.raced)
  /\ UNCHANGED <<besidesStore, examSeries, simulatorExams, practiceExams, learningPaths, tx, clock>>

\* getExamSeries: the first read fails; the catch returns null
GetExamSeriesSeriesReadFails(seriesId) ==
  /\ rd = NoValue
  /\ BeginRequest("examSeries")
  /\ last' = Failed(Completed("getExamSeries", seriesId, "resolved", JNull, Tables, FALSE))
  /\ UNCHANGED <<besidesStore, examSeries, simulatorExams, practiceExams, learningPaths, tx, rd>>

\* getExamSeries: the second read fails; the catch returns null
GetExamSeriesExamsReadFails ==
  /\ rd # NoValue
  /\ ~Locked("simulatorExams")
  /\ rd' = NoValue
  /\ last' = Failed(Completed("getExamSeries", rd.seriesId, "resolved", JNull,
                              rd.before, rd.raced))
  /\ UNCHANGED <<besidesStore, examSeries, simulatorExams, practiceExams, learningPaths, tx, clock>>

RECURSIVE NewestFirst(_)
\* orderBy('createdAt').reverse().toArray() of a set of rows
NewestFirst(rows) ==
  IF rows = {} THEN <<>>
  ELSE LET first == CHOOSE r \in rows : \A o \in rows : r.createdAt.ms >= o.createdAt.ms
       IN <<first>> \o NewestFirst(rows \ {first})

\* what getAllExamSeries returns from the table
AllExamSeries(table) == NewestFirst({table[k] : k \in DOMAIN table})

\* getAllExamSeries() resolves
GetAllExamSeries ==
  /\ BeginRequest("examSeries")
  /\ last' = Completed("getAllExamSeries", NoValue, "resolved",
                       AllExamSeries(examSeries), Tables, FALSE)
  /\ UNCHANGED <<besidesStore, examSeries, simulatorExams, practiceExams, learningPaths, tx, rd>>

\* getAllExamSeries(): the read fails; the catch returns []
GetAllExamSeriesFails ==
  /\ BeginRequest("examSeries")
  /\ last' = Failed(Completed("getAllExamSeries", NoValue, "resolved", <<>>, Tables, FALSE))
  /\ UNCHANGED <<besidesStore, examSeries, simulatorExams, practiceExams, learningPaths, tx, rd>>

\* the row savePracticeExam puts
PracticeExamRow(exam, settings) ==
  [id |-> exam.id,
   title |-> exam.title,
   description |-> exam.description,
   instructions |-> exam.instructions,
   totalPoints |-> exam.totalPoints,
   estimatedTime |-> exam.estimatedTime,
   difficulty |-> exam.difficulty,
   questionsData |-> JsonStringify(JArr(exam.questions)),
   settings |-> JsonStringify(settings),
   hasAnswerKey |-> ~Falsy(exam.answerKey),
   createdAt |-> ToISOString(exam.createdAt)]

\* savePracticeExam(exam, settings) resolves
SavePracticeExam(exam, settings) ==
  /\ BeginRequest("practiceExams")
  /\ practiceExams' = Put(practiceExams, PracticeExamRow(exam, settings))
  /\ last' = Completed("savePracticeExam", exam.id, "resolved", NoValue, Tables, FALSE)
  /\ UNCHANGED <<besidesStore, examSeries, simulatorExams, learningPaths, tx, rd>>

\* the row saveLearningPath puts
LearningPathRow(learningPath, now) ==
  [id |-> learningPath.id,
   topic |-> learningPath.topic,
   description |-> learningPath.description,
   totalEstimatedTime |-> learningPath.totalEstimatedTime,
   difficulty |-> learningPath.difficulty,
   stepsData |-> JsonStringify(learningPath.steps),
   createdAt |-> OrElse(learningPath.createdAt, ToISOString(now))]

\* saveLearningPath(learningPath) resolves
SaveLearningPath(learningPath) ==
  /\ BeginRequest("learningPaths")
  /\ learningPaths' = Put(learningPaths, LearningPathRow(learningPath, Now))
  /\ last' = Completed("saveLearningPath", learningPath.id, "resolved", NoValue, Tables, FALSE)
  /\ UNCHANGED <<besidesStore, examSeries, simulatorExams, practiceExams, tx, rd>>

\* savePracticeExam: the put fails; the catch rethrows
SavePracticeExamFails(exam, settings) ==
  /\ BeginRequest("practiceExams")
  /\ last' = Failed(Completed("savePracticeExam", exam.id, "rejected", NoValue, Tables, FALSE))
  /\ UNCHANGED <<besidesStore, examSeries, simulatorExams, practiceExams, learningPaths, tx, rd>>

\* what getPracticeExam returns from the row it read
LoadedPracticeExam(row) ==
  LET parsed == JsonParse(row.questionsData)
  IN IF ~parsed.ok THEN JNull
     ELSE [id |-> row.id,
           title |-> row.title,
           description |-> row.description,
           instructions |-> row.instructions,
           questions |-> parsed.v,
           totalPoints |-> row.totalPoints,
           estimatedTime |-> row.estimatedTime,
           difficulty |-> row.difficulty,
           answerKey |-> IF row.hasAnswerKey THEN parsed.v ELSE JUndef,
           createdAt |-> NewDate(row.createdAt)]

\* getPracticeExam(examId) resolves: null when there is no row
GetPracticeExam(examId) ==
  /\ BeginRequest("practiceExams")
  /\ last' = Completed("getPracticeExam", examId, "resolved",
                       IF examId \in DOMAIN practiceExams
                       THEN LoadedPracticeExam(practiceExams[examId]) ELSE JNull,
                       Tables, FALSE)
  /\ UNCHANGED <<besidesStore, examSeries, simulatorExams, practiceExams, learningPaths, tx, rd>>

\* getPracticeExam: the read fails; the catch returns null
GetPracticeExamFails(examId) ==
  /\ BeginRequest("practiceExams")
  /\ last' = Failed(Completed("getPracticeExam", examId, "resolved", JNull, Tables, FALSE))
  /\ UNCHANGED <<besidesStore, examSeries, simulatorExams, practiceExams, learningPaths, tx, rd>>

\* getAllPracticeExams() resolves
GetAllPracticeExams ==
  /\ BeginRequest("practiceExams")
  /\ last' = Completed("getAllPracticeExams", NoValue, "resolved",
                       NewestFirst({practiceExams[k] : k \in DOMAIN practiceExams}),
                       Tables, FALSE)
  /\ UNCHANGED <<besidesStore, examSeries, simulatorExams, practiceExams, learningPaths, tx, rd>>

\* getAllPracticeExams: the read fails; the catch returns []
GetAllPracticeExamsFails ==
  /\ BeginRequest("practiceExams")
  /\ last' = Failed(Completed("getAllPracticeExams", NoValue, "resolved", <<>>, Tables, FALSE))
  /\ UNCHANGED <<besidesStore, examSeries, simulatorExams, practiceExams, learningPaths, tx, rd>>

\* deletePracticeExam(examId) resolves
DeletePracticeExam(examId) ==
  /\ BeginRequest("practiceExams")
  /\ practiceExams' = Delete(practiceExams, examId)
  /\ last' = Completed("deletePracticeExam", examId, "resolved", NoValue, Tables, FALSE)
  /\ UNCHANGED <<besidesStore, examSeries, simulatorExams, learningPaths, tx, rd>>

\* deletePracticeExam: the delete fails; the catch rethrows
DeletePracticeExamFails(examId) ==
  /\ BeginRequest("practiceExams")
  /\ last' = Failed(Completed("deletePracticeExam", examId, "rejected", NoValue, Tables, FALSE))
  /\ UNCHANGED <<besidesStore, examSeries, simulatorExams, practiceExams, learningPaths, tx, rd>>

\* saveLearningPath: the put fails; the catch rethrows
SaveLearningPathFails(learningPath) ==
  /\ BeginRequest("learningPaths")
  /\ last' = Failed(Completed("saveLearningPath", learningPath.id, "rejected", NoValue,
                              Tables, FALSE))
  /\ UNCHANGED <<besidesStore, examSeries, simulatorExams, practiceExams, learningPaths, tx, rd>>

\* what getLearningPath returns from the row it read
LoadedLearningPath(row) ==
  LET parsed == JsonParse(row.stepsData)
  IN IF ~parsed.ok THEN JNull
     ELSE [id |-> row.id,
           topic |-> row.topic,
           description |-> row.description,
           totalEstimatedTime |-> row.totalEstimatedTime,
           difficulty |-> row.difficulty,
           steps |-> parsed.v,
           createdAt |-> row.createdAt]

\* getLearningPath(pathId) resolves: null when there is no row
GetLearningPath(pathId) ==
  /\ BeginRequest("learningPaths")
  /\ last' = Completed("getLearningPath", pathId, "resolved",
                       IF pathId \in DOMAIN learningPaths
                       THEN LoadedLearningPath(learningPaths[pathId]) ELSE JNull,
                       Tables, FALSE)
  /\ UNCHANGED <<besidesStore, examSeries, simulatorExams, practiceExams, learningPaths, tx, rd>>

\* getLearningPath: the read fails; the catch returns null
GetLearningPathFails(pathId) ==
  /\ BeginRequest("learningPaths")
  /\ last' = Failed(Completed("getLearningPath", pathId, "resolved", JNull, Tables, FALSE))
  /\ UNCHANGED <<besidesStore, examSeries, simulatorExams, practiceExams, learningPaths, tx, rd>>

\* getAllLearningPaths() resolves
GetAllLearningPaths ==
  /\ BeginRequest("learningPaths")
  /\ last' = Completed("getAllLearningPaths", NoValue, "resolved",
                       NewestFirst({learningPaths[k] : k \in DOMAIN learningPaths}),
                       Tables, FALSE)
  /\ UNCHANGED <<besidesStore, examSeries, simulatorExams, practiceExams, learningPaths, tx, rd>>

\* getAllLearningPaths: the read fails; the catch returns []
GetAllLearningPathsFails ==
  /\ BeginRequest("learningPaths")
  /\ last' = Failed(Completed("getAllLearningPaths", NoValue, "resolved", <<>>, Tables, FALSE))
  /\ UNCHANGED <<besidesStore, examSeries, simulatorExams, practiceExams, learningPaths, tx, rd>>

\* deleteLearningPath(pathId) resolves
DeleteLearningPath(pathId) ==
  /\ BeginRequest("learningPaths")
  /\ learningPaths' = Delete(learningPaths, pathId)
  /\ last' = Completed("deleteLearningPath", pathId, "resolved", NoValue, Tables, FALSE)
  /\ UNCHANGED <<besidesStore, examSeries, simulatorExams, practiceExams, tx, rd>>

\* deleteLearningPath: the delete fails; the catch rethrows
DeleteLearningPathFails(pathId) ==
  /\ BeginRequest("learningPaths")
  /\ last' = Failed(Completed("deleteLearningPath", pathId, "rejected", NoValue, Tables, FALSE))
  /\ UNCHANGED <<besidesStore, examSeries, simulatorExams, practiceExams, learningPaths, tx, rd>>

\* the counts getStorageStats returns
StorageStats(tables) ==
  [examSeries |-> Cardinality(DOMAIN tables.examSeries),
   simulatorExams |-> Cardinality(DOMAIN tables.simulatorExams),
   practiceExams |-> Cardinality(DOMAIN tables.practiceExams),
   learningPaths |-> Cardinality(DOMAIN tables.learningPaths)]

\* the counts getStorageStats returns when a count fails
ZeroStats == StorageStats([examSeries |-> EmptyTable, simulatorExams |-> EmptyTable,
                           practiceExams |-> EmptyTable, learningPaths |-> EmptyTable])

\* getStorageStats() resolves: the four counts wait for no transaction
StorageStatsRequest ==
  /\ tx = NoValue
  /\ clock < MaxOps
  /\ clock' = clock + 1

GetStorageStats ==
  /\ StorageStatsRequest
  /\ last' = Completed("getStorageStats", NoValue, "resolved", StorageStats(Tables),
                       Tables, FALSE)
  /\ UNCHANGED <<besidesStore, examSeries, simulatorExams, practiceExams, learningPaths, tx, rd>>

\* getStorageStats: a count fails; the catch returns zeros
GetStorageStatsFails ==
  /\ StorageStatsRequest
  /\ last' = Failed(Completed("getStorageStats", NoValue, "resolved", ZeroStats,
                              Tables, FALSE))
  /\ UNCHANGED <<besidesStore, examSeries, simulatorExams, practiceExams, learningPaths, tx, rd>>

StoreNext ==
  \/ \E S \in StoreSeries :
       SaveExamSeriesBegin(S, UiSettings(S.totalExams), JNum(30))
  \/ SaveExamSeriesPut
  \/ \E seriesId \in SeriesIds : DeleteExamSeriesBegin(seriesId)
  \/ DeleteExamSeriesStep
  \/ ClearAllDataBegin
  \/ ClearAllDataStep
  \/ TxCommit
  \/ TxAbort
  \/ \E examId \in ExamIds \cup {UnknownExamId}, sc \in ScoreInputs :
       \/ UpdateExamScore(examId, sc[1], sc[2])
       \/ UpdateExamScoreFails(examId, sc[1], sc[2])
  \/ \E seriesId \in SeriesIds :
       \/ GetExamSeriesReadSeries(seriesId)
       \/ GetExamSeriesSeriesReadFails(seriesId)
  \/ GetExamSeriesReadExams
  \/ GetExamSeriesExamsReadFails
  \/ GetAllExamSeries
  \/ GetAllExamSeriesFails
  \/ SavePracticeExam(PracticeExamInput, JObj(<<>>))
  \/ SavePracticeExamFails(PracticeExamInput, JObj(<<>>))
  \/ GetPracticeExam(PracticeExamInput.id)
  \/ GetPracticeExamFails(PracticeExamInput.id)
  \/ GetAllPracticeExams
  \/ GetAllPracticeExamsFails
  \/ DeletePracticeExam(PracticeExamInput.id)
  \/ DeletePracticeExamFails(PracticeExamInput.id)
  \/ \E learningPath \in LearningPathInputs :
       \/ SaveLearningPath(learningPath)
       \/ SaveLearningPathFails(learningPath)
  \/ \E pathId \in PathIds :
       \/ GetLearningPath(pathId)
       \/ GetLearningPathFails(pathId)
       \/ DeleteLearningPath(pathId)
       \/ DeleteLearningPathFails(pathId)
  \/ GetAllLearningPaths
  \/ GetAllLearningPathsFails
  \/ GetStorageStats
  \/ GetStorageStatsFails

(* ------------------------------------------------------------------ *)
(* cleanJsonResponse on wrapped JSON payloads                           *)
(*                                                                      *)
(* The atoms of these payloads are single characters or runs of         *)
(* letters.                                                             *)
(* ------------------------------------------------------------------ *)
\* whitespace characters around a payload or inside a fence
MaxPad == 1

Pads == UNION {[1..n -> WhiteSpace] : n \in 0..MaxPad}

FenceKinds == {"none", "plain", "json"}

\* valid JSON payloads: objects, arrays, strings, a number and a literal;
\* some strings hold braces or brackets
Payloads ==
  {JObj(<< <<K("a"), JNum(1)>> >>),
   JObj(<< <<K("a"), JStr(<<"]", "x", "}">>)>>, <<K("b"), JArr(<<JNum(2)>>)>> >>),
   JArr(<<JObj(<< <<K("a"), JNull>> >>), JStr(<<"{">>)>>),
   JArr(<<>>),
   JStr(<<"plain">>),
   JStr(<<"{">>),
   JStr(<<"a", "{", "b", "}">>),
   JStr(<<"[", "]">>),
   JNum(42),
   JNull}

\* the payload's text inside whitespace and at most one pair of fences
Wrap(chars, lead, fenceKind, inner, trail) ==
  CASE fenceKind = "none" -> lead \o chars \o trail
    [] fenceKind = "plain" -> lead \o Fence \o inner \o chars \o inner \o Fence \o trail
    [] fenceKind = "json" -> lead \o FenceJson \o inner \o chars \o inner \o Fence \o trail

\* characters that are no letter
NonLetters ==
  WhiteSpace \cup {DigitChars[d] : d \in 1..10}
  \cup {"{", "}", "[", "]", ",", ":", "\"", "\\", BackTick}

RECURSIVE FixUnescapedQuotes(_, _)
\* cleaned.replace(/(\d)"([a-zA-Z])/g, '$1\\"$2') from position i on
FixUnescapedQuotes(s, i) ==
  IF i > Len(s) THEN <<>>
  ELSE IF /\ i + 2 <= Len(s)
          /\ IsDigit(s[i])
          /\ s[i + 1] = "\""
          /\ s[i + 2] \notin NonLetters
       THEN <<s[i], "\\", "\"", s[i + 2]>> \o FixUnescapedQuotes(s, i + 3)
       ELSE <<s[i]>> \o FixUnescapedQuotes(s, i + 1)

\* SolverService.cleanJsonResponse: fences and whitespace only, then the
\* quote fix; no slicing
solverCleanJsonResponse(text) ==
  IF text = <<>> THEN text
  ELSE FixUnescapedQuotes(Trim(StripClosingFence(StripOpeningFence(Trim(text)))), 1)

CleanInit ==
  /\ jPayload = NoValue
  /\ jText = NoValue
  /\ jCleaned = NoValue
  /\ jService = NoValue

\* cleanJsonResponse of ExamSimulatorService and of LearningRoadService
\* (the same code) on a wrapped payload
CleanJsonResponse(payload, lead, fenceKind, inner, trail) ==
  LET text == Wrap(JsonStringify(payload), lead, fenceKind, inner, trail)
  IN /\ jPayload = NoValue
     /\ jPayload' = payload
     /\ jText' = text
     /\ jCleaned' = cleanJsonResponse(text)
     /\ jService' = "ExamSimulatorService"
     /\ UNCHANGED besidesClean

\* cleanJsonResponse of SolverService on a wrapped payload
SolverCleanJsonResponse(payload, lead, fenceKind, inner, trail) ==
  LET text == Wrap(JsonStringify(payload), lead, fenceKind, inner, trail)
  IN /\ jPayload = NoValue
     /\ jPayload' = payload
     /\ jText' = text
     /\ jCleaned' = solverCleanJsonResponse(text)
     /\ jService' = "SolverService"
     /\ UNCHANGED besidesClean

CleanNext ==
  \E payload \in Payloads, lead \in Pads, fenceKind \in FenceKinds, inner \in Pads,
     trail \in Pads :
    \/ CleanJsonResponse(payload, lead, fenceKind, inner, trail)
    \/ SolverCleanJsonResponse(payload, lead, fenceKind, inner, trail)

(* ------------------------------------------------------------------ *)
(* getOssResponse: the text-completion call, one step per await         *)
(* ------------------------------------------------------------------ *)
\* v[0]
First(v) == IF v.t = "arr" /\ v.items # <<>> THEN v.items[1] ELSE JUndef

\* v?.k
OptProp(v, k) == IF PropThrows(v) THEN JUndef ELSE GetProp(v, k)

\* a completion body whose first choice has the given message
CompletionBody(message) ==
  JsonStringify(JObj(<< <<K("choices"), JArr(<<JObj(<< <<K("message"), message>> >>)>>)>> >>))

\* response bodies: a completion, completions without content, no
\* choice, an error object, JSON null and a body that is no JSON
BodyContent == CompletionBody(JObj(<< <<K("content"), JStr(<<"hello">>)>> >>))

BodyNoContent == CompletionBody(JObj(<< <<K("role"), JStr(<<"assistant">>)>> >>))

BodyNullContent == CompletionBody(JObj(<< <<K("content"), JNull>> >>))

BodyEmptyContent == CompletionBody(JObj(<< <<K("content"), JStr(<<>>)>> >>))

BodyNullMessage == CompletionBody(JNull)

BodyNoChoice == JsonStringify(JObj(<< <<K("choices"), JArr(<<>>)>> >>))

BodyError ==
  JsonStringify(JObj(<< <<K("error"), JObj(<< <<K("message"), JStr(<<"rate limit">>)>> >>)>> >>))

BodyNull == NullChars

BodyNotJson == <<"Bad Gateway">>

Bodies ==
  {BodyContent, BodyNoContent, BodyNullContent, BodyEmptyContent, BodyNullMessage,
   BodyNoChoice, BodyError, BodyNull, BodyNotJson}

\* HTTP statuses of a response
Statuses == {200, 401, 429, 500}

Prompts == {<<"exam prompt">>, <<"path prompt">>}

\* whether VITE_GROQ_API_KEY is set
ApiKeys == {TRUE, FALSE}

MissingKeyError == Thrown(TRUE, <<"Groq API key is missing.">>)

NetworkError == Thrown(TRUE, <<"Failed to fetch">>)

JsonSyntaxError == Thrown(TRUE, <<"Unexpected token">>)

ReadTypeError == Thrown(TRUE, <<"Cannot read properties of undefined">>)

\* data.choices[0] throws a TypeError
ContentThrows(data) == PropThrows(data) \/ PropThrows(GetProp(data, K("choices")))

\* data.choices[0]?.message?.content || ''
FullContent(data) ==
  OrElse(OptProp(OptProp(First(GetProp(data, K("choices"))), K("message")), K("content")),
         JStr(<<>>))

OssInit ==
  /\ oPc = "idle"
  /\ oPrompt = NoValue
  /\ oResponse = NoValue
  /\ oNetwork = FALSE
  /\ oResult = NoValue

\* the call: the key check, then await fetch(...)
OssStart(prompt, hasKey) ==
  /\ oPc = "idle"
  /\ oPrompt' = JStr(prompt)
  /\ IF hasKey
     THEN oPc' = "fetching" /\ UNCHANGED oResult
     ELSE oPc' = "threw" /\ oResult' = MissingKeyError
  /\ UNCHANGED <<besidesOss, oResponse, oNetwork>>

\* fetch resolves with a response of any status; then await response.json()
OssFetchResolves(status, body) ==
  /\ oPc = "fetching"
  /\ oPc' = "parsing"
  /\ oResponse' = [status |-> status, body |-> body]
  /\ UNCHANGED <<besidesOss, oPrompt, oNetwork, oResult>>

\* fetch rejects (a network error): the catch rethrows
OssFetchRejects ==
  /\ oPc = "fetching"
  /\ oPc' = "threw"
  /\ oNetwork' = TRUE
  /\ oResult' = NetworkError
  /\ UNCHANGED <<besidesOss, oPrompt, oResponse>>

\* response.json() settles: a body that is no JSON rejects; otherwise the
\* content is read and returned, or the read throws; the catch rethrows
OssJsonSettles ==
  LET parsed == JsonParse(oResponse.body)
  IN /\ oPc = "parsing"
     /\ IF ~parsed.ok
        THEN oPc' = "threw" /\ oResult' = JsonSyntaxError
        ELSE IF ContentThrows(parsed.v)
        THEN oPc' = "threw" /\ oResult' = ReadTypeError
        ELSE oPc' = "returned" /\ oResult' = FullContent(parsed.v)
     /\ UNCHANGED <<besidesOss, oPrompt, oResponse, oNetwork>>

OssNext ==
  \/ \E prompt \in Prompts, hasKey \in ApiKeys : OssStart(prompt, hasKey)
  \/ \E status \in Statuses, body \in Bodies : OssFetchResolves(status, body)
  \/ OssFetchRejects
  \/ OssJsonSettles

(* ------------------------------------------------------------------ *)
(* LearningRoadService and SolverService, one step per await            *)
(* ------------------------------------------------------------------ *)
RoadOps == {"generateLearningPath", "generateLearningMaterial", "generateQuiz"}

SolverOps == {"analyzeProblems", "analyzeProblemsText"}

Lit(text) == JStr(<<text>>)

Strings(texts) == JArr([i \in 1..Len(texts) |-> Lit(texts[i])])

\* { ...learningPath, id, steps: learningPath.steps.map(...) }
ValidatedPath(learningPath, now) ==
  LET steps == GetProp(learningPath, K("steps"))
      renumbered ==
        [i \in 1..Len(steps.items) |->
           JObj(ObjSet(SpreadProps(steps.items[i]), K("step"), JNum(i)))]
  IN JObj(ObjSet(ObjSet(SpreadProps(learningPath), K("id"), Tmpl("path_", <<now>>)),
                 K("steps"), JArr(renumbered)))

\* learningPath.steps.map throws a TypeError
PathThrows(learningPath) ==
  \/ PropThrows(learningPath)
  \/ GetProp(learningPath, K("steps")).t # "arr"

createFallbackLearningPath(topic, now) ==
  JObj(<<
    <<K("id"), Tmpl("fallback_", <<now>>)>>,
    <<K("topic"), JStr(topic)>>,
    <<K("totalEstimatedTime"), Lit("3 hours")>>,
    <<K("difficulty"), Lit("Mixed")>>,
    <<K("description"), Tmpl("A comprehensive introduction to", <<topic>>)>>,
    <<K("steps"), JArr(<<
       JObj(<<
         <<K("step"), JNum(1)>>,
         <<K("title"), Tmpl("Introduction to", <<topic>>)>>,
         <<K("description"), Tmpl("Learn the fundamental concepts", <<topic>>)>>,
         <<K("estimatedTime"), Lit("30 min")>>,
         <<K("difficulty"), Lit("Beginner")>>,
         <<K("keyTopics"),
           Strings(<<"Basic concepts", "Key terminology", "Historical context">>)>>,
         <<K("practiceExercises"),
           Strings(<<"Read introductory materials", "Complete vocabulary quiz",
                     "Watch overview video">>)>> >>),
       JObj(<<
         <<K("step"), JNum(2)>>,
         <<K("title"), Tmpl("Core Principles of", <<topic>>)>>,
         <<K("description"), Tmpl("Understand the main theories", <<topic>>)>>,
         <<K("estimatedTime"), Lit("45 min")>>,
         <<K("difficulty"), Lit("Intermediate")>>,
         <<K("prerequisites"), JArr(<<Tmpl("Introduction to", <<topic>>)>>)>>,
         <<K("keyTopics"),
           Strings(<<"Main theories", "Core principles", "Key relationships">>)>>,
         <<K("practiceExercises"),
           Strings(<<"Solve practice problems", "Create concept map",
                     "Explain principles">>)>> >>),
       JObj(<<
         <<K("step"), JNum(3)>>,
         <<K("title"), Tmpl("Advanced Applications of", <<topic>>)>>,
         <<K("description"), Tmpl("Explore real-world applications", <<topic>>)>>,
         <<K("estimatedTime"), Lit("60 min")>>,
         <<K("difficulty"), Lit("Advanced")>>,
         <<K("prerequisites"), JArr(<<Tmpl("Core Principles of", <<topic>>)>>)>>,
         <<K("keyTopics"),
           Strings(<<"Real-world applications", "Advanced concepts",
                     "Current research">>)>>,
         <<K("practiceExercises"),
           Strings(<<"Case study analysis", "Project work",
                     "Research assignment">>)>> >>) >>)>> >>)

\* the inner try/catch of generateLearningPath
BuildLearningPath(text, topic, now) ==
  LET parsed == JsonParse(cleanJsonResponse(text))
  IN IF parsed.ok /\ ~PathThrows(parsed.v)
     THEN ValidatedPath(parsed.v, now)
     ELSE createFallbackLearningPath(topic, now)

createFallbackLearningMaterial(topic, stepTitle, stepDescription, now) ==
  JObj(<<
    <<K("id"), Tmpl("fallback_material_", <<now>>)>>,
    <<K("stepTitle"), JStr(stepTitle)>>,
    <<K("topic"), JStr(topic)>>,
    <<K("introduction"), Tmpl("Welcome to learning about", <<stepTitle, topic>>)>>,
    <<K("sections"), JArr(<<
       JObj(<<
         <<K("title"), Lit("Introduction to the Concept")>>,
         <<K("content"), Tmpl("This is a fundamental concept", <<stepDescription>>)>>,
         <<K("examples"),
           Strings(<<"Basic example 1", "Basic example 2", "Basic example 3">>)>>,
         <<K("keyPoints"),
           Strings(<<"Key concept 1", "Key concept 2", "Key concept 3">>)>> >>),
       JObj(<<
         <<K("title"), Lit("Practical Applications")>>,
         <<K("content"), Lit("Now that you understand the basics")>>,
         <<K("examples"),
           Strings(<<"Application example 1", "Application example 2">>)>>,
         <<K("keyPoints"),
           Strings(<<"Practical point 1", "Practical point 2">>)>> >>) >>)>>,
    <<K("summary"), Tmpl("In this section, you learned about", <<stepTitle, topic>>)>>,
    <<K("nextSteps"),
      Strings(<<"Practice the concepts learned", "Review the key points",
                "Prepare for the quiz">>)>>,
    <<K("estimatedReadTime"), Lit("10 minutes")>> >>)

\* the inner try/catch of generateLearningMaterial: { ...material, id }
BuildLearningMaterial(text, args, now) ==
  LET parsed == JsonParse(cleanJsonResponse(text))
  IN IF parsed.ok
     THEN JObj(ObjSet(SpreadProps(parsed.v), K("id"), Tmpl("material_", <<now>>)))
     ELSE createFallbackLearningMaterial(args.topic, args.stepTitle,
                                         args.stepDescription, now)

createFallbackQuiz(topic, stepTitle, now) ==
  JArr(<<
    JObj(<<
      <<K("id"), Tmpl("fallback_quiz_", <<now>>)>>,
      <<K("question"), Tmpl("What is the most important concept", <<stepTitle>>)>>,
      <<K("options"),
        Strings(<<"Understanding the basic definitions", "Memorizing all the details",
                  "Practical application of concepts", "Historical background only">>)>>,
      <<K("correctAnswer"), JNum(2)>>,
      <<K("explanation"), Lit("Practical application of concepts is typically the most important")>>,
      <<K("difficulty"), Lit("Medium")>> >>) >>)

\* questions.map((question, index) => ({ ...question, id }))
ValidatedQuestions(questions, now) ==
  JArr([i \in 1..Len(questions.items) |->
          JObj(ObjSet(SpreadProps(questions.items[i]), K("id"),
                      Tmpl("quiz_", <<now, i - 1>>)))])

\* the inner try/catch of generateQuiz
BuildQuiz(text, args, now) ==
  LET parsed == JsonParse(cleanJsonResponse(text))
  IN IF parsed.ok /\ parsed.v.t = "arr"
     THEN ValidatedQuestions(parsed.v, now)
     ELSE createFallbackQuiz(args.topic, args.stepTitle, now)

BuildRoad(op, text, args, now) ==
  CASE op = "generateLearningPath" -> BuildLearningPath(text, args.topic, now)
    [] op = "generateLearningMaterial" -> BuildLearningMaterial(text, args, now)
    [] op = "generateQuiz" -> BuildQuiz(text, args, now)

\* error instanceof Error ? error.message : fallback
MessageOf(error, fallback) == IF error.isError THEN error.message ELSE fallback

\* the outer catch of the three learning-road operations
RoadFailure(op, error) ==
  Thrown(TRUE, <<CASE op = "generateLearningPath" -> "Failed to generate learning path: "
                   [] op = "generateLearningMaterial" -> "Failed to generate learning material: "
                   [] op = "generateQuiz" -> "Failed to generate quiz: ",
                 MessageOf(error, "Unknown error")>>)

\* what getGeminiResponse and getGeminiResponseFile throw
GeminiError == Thrown(TRUE, "Failed to extract text from the image.")

\* the capability each operation awaits for its text
CapabilityErrors(op) ==
  IF op = "generateLearningMaterial" THEN {GeminiError} ELSE CompletionErrors

FormatError == Thrown(TRUE, "The server response was not in the expected format.")

\* the id of a validated problem
ProblemId(op, file, now, index) ==
  IF op = "analyzeProblems" THEN Tmpl("file_now_index", <<file, now, index>>)
  ELSE Tmpl("now_index", <<now, index>>)

\* problems.map((problem, index) => ({ ...problem, id }))
ValidatedProblems(problems, op, file, now) ==
  [i \in 1..Len(problems.items) |->
     JObj(ObjSet(SpreadProps(problems.items[i]), K("id"),
                 ProblemId(op, file, now, i - 1)))]

\* the record the catch of analyzeProblems and analyzeProblemsText pushes
ErrorProblem(op, file, error, now) ==
  JObj(<<
    <<K("id"), IF op = "analyzeProblems" THEN Tmpl("error_", <<file, now>>)
               ELSE Lit("error")>>,
    <<K("question"), IF op = "analyzeProblems" THEN Tmpl("Failed to process file:", <<file>>)
                     ELSE Lit("Failed")>>,
    <<K("solution"), Lit("Error")>>,
    <<K("difficulty"), Lit("Hard")>>,
    <<K("topic"), Lit("Error")>>,
    <<K("steps"), JArr(<<
       JObj(<<
         <<K("step"), JNum(1)>>,
         <<K("description"), Lit("An error occurred")>>,
         <<K("equation"), Lit("N/A")>>,
         <<K("explanation"),
           Lit(MessageOf(error, "An unknown error occurred during processing."))>> >>) >>)>> >>)

\* the problems one completion text adds to allProblems
SolvedProblems(op, file, text, now) ==
  LET parsed == JsonParse(solverCleanJsonResponse(text))
  IN IF parsed.ok /\ parsed.v.t = "arr"
     THEN ValidatedProblems(parsed.v, op, file, now)
     ELSE <<ErrorProblem(op, file, FormatError, now)>>

PathData ==
  JObj(<<
    <<K("topic"), Lit("Algebra")>>,
    <<K("steps"), JArr(<<
       JObj(<< <<K("step"), JNum(5)>>, <<K("title"), Lit("A")>> >>),
       JObj(<< <<K("title"), Lit("B")>> >>) >>)>> >>)

TextPath == JsonStringify(PathData)

TextPathFenced == FenceJson \o <<"\n">> \o TextPath \o <<"\n">> \o Fence

MaterialData ==
  JObj(<<
    <<K("stepTitle"), Lit("Step")>>,
    <<K("sections"), JArr(<<>>)>> >>)

TextMaterial == JsonStringify(MaterialData)

QuizData ==
  JArr(<<
    JObj(<< <<K("question"), Lit("Q1")>>, <<K("correctAnswer"), JNum(1)>> >>),
    JObj(<< <<K("question"), Lit("Q2")>>, <<K("correctAnswer"), JNum(0)>> >>) >>)

TextQuiz == JsonStringify(QuizData)

ProblemsData ==
  JArr(<<
    JObj(<< <<K("question"), Lit("x+1=2")>>, <<K("solution"), Lit("x=1")>>,
            <<K("steps"), JArr(<<>>)>> >>) >>)

TextProblems == JsonStringify(ProblemsData)

\* zero problems found
TextNoProblems == JsonStringify(JArr(<<>>))

\* the texts the completion capability can return to these services
ServiceTexts ==
  {TextPath, TextPathFenced, TextMaterial, TextQuiz, TextProblems, TextNoProblems,
   TextTruncated, TextEmpty, TextRefusal, TextNull, TextNoQuestions}

\* files handed to analyzeProblems
MaxSolverFiles == 2

StepTitles == {<<"Linear equations">>}

StepDescriptions == {<<"Solve for x.">>}

ProblemTexts == {<<"x+1=2">>}

RoadInit ==
  /\ rOp = "none"
  /\ rPc = "idle"
  /\ rArgs = NoValue
  /\ rFile = 0
  /\ rProblems = <<>>
  /\ rResult = NoValue
  /\ rThrew = FALSE
  /\ rTexts = <<>>
  /\ rNow = 1

\* a learning-road operation runs up to its await
RoadCall(op, topic, stepTitle, stepDescription) ==
  /\ rPc = "idle"
  /\ rOp' = op
  /\ rArgs' = [topic |-> topic, stepTitle |-> stepTitle,
               stepDescription |-> stepDescription]
  /\ rPc' = "completing"
  /\ UNCHANGED <<rFile, rProblems, rResult, rThrew, rTexts, rNow>>

\* a learning-road operation is called and awaits its completion
RoadStart(op, topic, stepTitle, stepDescription) ==
  /\ RoadCall(op, topic, stepTitle, stepDescription)
  /\ UNCHANGED besidesRoad

\* the completion returns: parse, or the fallback
RoadCompletionReturns(text) ==
  /\ rPc = "completing"
  /\ rOp \in RoadOps
  /\ rTexts' = Append(rTexts, text)
  /\ rNow' = rNow + 1
  /\ rResult' = BuildRoad(rOp, text, rArgs, rNow')
  /\ rPc' = "resolved"
  /\ UNCHANGED <<rOp, rArgs, rFile, rProblems, rThrew>>
  /\ UNCHANGED besidesRoad

\* the completion throws: the outer catch wraps and rethrows
RoadCompletionThrows(error) ==
  /\ rPc = "completing"
  /\ rOp \in RoadOps
  /\ error \in CapabilityErrors(rOp)
  /\ rThrew' = TRUE
  /\ rNow' = rNow + 1
  /\ rResult' = RoadFailure(rOp, error)
  /\ rPc' = "rejected"
  /\ UNCHANGED <<rOp, rArgs, rFile, rProblems, rTexts>>
  /\ UNCHANGED besidesRoad

\* the for loop of analyzeProblems reaches the file after `done`
SolverNextFile(files, done, problems) ==
  IF done < files
  THEN /\ rFile' = done + 1
       /\ rPc' = "extracting"
       /\ rResult' = rResult
  ELSE /\ rFile' = done
       /\ rPc' = "resolved"
       /\ rResult' = JArr(problems)

\* analyzeProblems(files, language) up to its first await or its return
AnalyzeProblemsCall(files) ==
  /\ rPc = "idle"
  /\ rOp' = "analyzeProblems"
  /\ rArgs' = [files |-> files]
  /\ SolverNextFile(files, 0, <<>>)
  /\ UNCHANGED <<rProblems, rThrew, rTexts, rNow>>

AnalyzeProblemsStart(files) ==
  /\ AnalyzeProblemsCall(files)
  /\ UNCHANGED besidesRoad

\* analyzeProblemsText(problem, language) up to its await
AnalyzeProblemsTextCall(problem) ==
  /\ rPc = "idle"
  /\ rOp' = "analyzeProblemsText"
  /\ rArgs' = [files |-> 0, problem |-> problem]
  /\ rPc' = "completing"
  /\ UNCHANGED <<rFile, rProblems, rResult, rThrew, rTexts, rNow>>

AnalyzeProblemsTextStart(problem) ==
  /\ AnalyzeProblemsTextCall(problem)
  /\ UNCHANGED besidesRoad

\* getGeminiResponseFile(file) returns the problem's text
SolverExtractionReturns ==
  /\ rPc = "extracting"
  /\ rPc' = "completing"
  /\ rNow' = rNow + 1
  /\ UNCHANGED <<rOp, rArgs, rFile, rProblems, rResult, rThrew, rTexts>>
  /\ UNCHANGED besidesRoad

\* getGeminiResponseFile(file) throws: the catch pushes an error problem
SolverExtractionThrows ==
  /\ rPc = "extracting"
  /\ rThrew' = TRUE
  /\ rNow' = rNow + 1
  /\ rProblems' = Append(rProblems, ErrorProblem(rOp, rFile, GeminiError, rNow'))
  /\ SolverNextFile(rArgs.files, rFile, rProblems')
  /\ UNCHANGED <<rOp, rArgs, rTexts>>
  /\ UNCHANGED besidesRoad

\* getOssResponse returns: the validated problems or an error problem
SolverCompletionReturns(text) ==
  /\ rPc = "completing"
  /\ rOp \in SolverOps
  /\ rTexts' = Append(rTexts, text)
  /\ rNow' = rNow + 1
  /\ rProblems' = rProblems \o SolvedProblems(rOp, rFile, text, rNow')
  /\ SolverNextFile(rArgs.files, rFile, rProblems')
  /\ UNCHANGED <<rOp, rArgs, rThrew>>
  /\ UNCHANGED besidesRoad

\* getOssResponse throws: the catch pushes an error problem
SolverCompletionThrows(error) ==
  /\ rPc = "completing"
  /\ rOp \in SolverOps
  /\ rThrew' = TRUE
  /\ rNow' = rNow + 1
  /\ rProblems' = Append(rProblems, ErrorProblem(rOp, rFile, error, rNow'))
  /\ SolverNextFile(rArgs.files, rFile, rProblems')
  /\ UNCHANGED <<rOp, rArgs, rTexts>>
  /\ UNCHANGED besidesRoad

\* the operation's promise settled
RoadDone == rPc \in {"resolved", "rejected"}

RoadNext ==
  \/ \E op \in RoadOps, topic \in Topics, stepTitle \in StepTitles,
        stepDescription \in StepDescriptions :
       RoadStart(op, topic, stepTitle, stepDescription)
  \/ \E text \in ServiceTexts : RoadCompletionReturns(text)
  \/ \E error \in CompletionErrors \cup {GeminiError} : RoadCompletionThrows(error)
  \/ \E files \in 0..MaxSolverFiles : AnalyzeProblemsStart(files)
  \/ \E problem \in ProblemTexts : AnalyzeProblemsTextStart(problem)
  \/ SolverExtractionReturns
  \/ SolverExtractionThrows
  \/ \E text \in ServiceTexts : SolverCompletionReturns(text)
  \/ \E error \in CompletionErrors : SolverCompletionThrows(error)

(* ------------------------------------------------------------------ *)
(* generateExamSeries over the whole difficulty table                   *)
(* ------------------------------------------------------------------ *)
\* levels of the series generated to walk the whole difficulty table
MaxLevels == 7

\* a well-formed exam that carries a level and a label of its own
TextOwnLabel ==
  JsonStringify(JObj(<< <<K("title"), JStr(<<"T">>)>>,
                        <<K("questions"), JArr(<<>>)>>,
                        <<K("difficultyLevel"), JNum(7)>>,
                        <<K("difficultyLabel"), JStr(<<"Easy">>)>> >>))

LevelTextsSet == {TextOwnLabel, TextTruncated}

\* generateExamSeries over series of up to MaxLevels exams
LevelsNext ==
  \/ \E seriesTopic \in Topics, n \in 1..MaxLevels, examTime \in ExamTimes :
       GenStart(seriesTopic, <<"covers linear equations">>, 0, UiSettings(n), examTime)
  \/ \E text \in LevelTextsSet : GenCompletionReturns(text)
  \/ GenDelayElapsed

(* ------------------------------------------------------------------ *)
(* ExamSimulatorView: taking an exam                                    *)
(* ------------------------------------------------------------------ *)
\* the countdown an attempt starts with, exam.estimatedTime * 60 seconds
MaxSeconds == 2

\* attempts started in one behaviour
MaxAttempts == 2

\* getExamSeries calls of the simulator screen in flight at once
MaxLoads == 2

\* handleSubmitExam runs in one attempt, and score writes in flight
MaxSubmits == 2

\* an exam of two true-false questions; the second has no correctAnswer
TrueFalseExamData ==
  JObj(<< <<K("title"), JStr(<<"Algebra quiz">>)>>,
          <<K("questions"),
            JArr(<<JObj(<< <<K("id"), JStr(<<"a">>)>>,
                          <<K("type"), JStr(<<"true-false">>)>>,
                          <<K("correctAnswer"), JNum(1)>>,
                          <<K("points"), JNum(50)>> >>),
                   JObj(<< <<K("question"), JStr(<<"x">>)>>,
                          <<K("type"), JStr(<<"true-false">>)>> >>)>>)>>,
          <<K("totalPoints"), JNum(100)>> >>)

TextTrueFalse == JsonStringify(TrueFalseExamData)

\* the one-level series the view is given: true-false questions, or the
\* exam of a text whose questions list is empty
ViewSeriesSet ==
  {GenerateSeries(StoreArgs(1), <<text>>, 1) : text \in {TextTrueFalse, TextFenced}}

\* the exam with questions
ViewExam == GenerateSeries(StoreArgs(1), <<TextTrueFalse>>, 1).exams[1]

\* answers the user may give
AnswerChoices == {JNum(0), JNum(1)}

\* the answers the rendered question lets the user select
OfferedAnswers(question) ==
  LET type == GetProp(question, K("type"))
      options == GetProp(question, K("options"))
  IN IF type = JStr(<<"multiple-choice">>) /\ options.t = "arr"
     THEN {JNum(i - 1) : i \in 1..Len(options.items)}
     ELSE IF type = JStr(<<"true-false">>) THEN {JNum(0), JNum(1)}
     ELSE {}

\* mutant: a missing current question renders as nothing
RenderThrows_Never(exam, state) == FALSE

\* currentQuestion.question of the taking-exam render throws a TypeError
\* when exam.questions has no element at currentQuestionIndex
RenderThrows(exam, state) == state.currentQuestionIndex >= Len(exam.questions)

\* the exam object as the view reads it: score, completedAt and timeTaken
\* are undefined on an exam that generateExamSeries built
ExamObject(exam) ==
  [f \in DOMAIN exam \cup {"score", "completedAt", "timeTaken"} |->
     IF f \in DOMAIN exam THEN exam[f] ELSE JUndef]

\* new Array(n).fill(null)
NullAnswers(n) == [i \in 1..n |-> JNull]

\* Math.round(num / den) for num >= 0 and den > 0
MathRound(num, den) == (2 * num + den) \div (2 * den)

\* the forEach of handleSubmitExam: userAnswer === question.correctAnswer
CorrectAnswers(exam, answers) ==
  Cardinality({i \in 1..Len(exam.questions) :
                 answers[i] = GetProp(exam.questions[i], K("correctAnswer"))})

\* Math.round((correctAnswers / exam.questions.length) * 100)
Score(exam, answers) ==
  IF Len(exam.questions) = 0 THEN JNaN
  ELSE JNum(MathRound(100 * CorrectAnswers(exam, answers), Len(exam.questions)))

\* exam.score, exam.completedAt, exam.timeTaken set to undefined
ResetOutcome(exam) ==
  [exam EXCEPT !.score = JUndef, !.completedAt = JUndef, !.timeTaken = JUndef]

\* what the component renders
Screen ==
  IF vExam = NoValue THEN "unmounted"
  ELSE IF vView = "crashed" THEN "crashed"
  ELSE IF vView = "results" /\ vResults # NoValue THEN "results"
  ELSE IF vView = "taking-exam" /\ vState # NoValue THEN "taking-exam"
  ELSE "overview"

\* the dependencies of the timer effect: [currentView, examTakingState?.isSubmitted]
Deps(view, state) ==
  <<view, IF state = NoValue THEN "undefined"
          ELSE IF state.isSubmitted THEN "true" ELSE "false">>

\* the timer effect after a render with (view, state): when a dependency
\* changed the old interval is cleared, and a new one is set while an
\* unsubmitted exam is taken; its callback closes over this render
TimerEffect(view, state) ==
  IF Deps(view, state) = Deps(vView, vState) THEN vInterval
  ELSE IF view = "taking-exam" /\ state # NoValue /\ ~state.isSubmitted
  THEN [closure |-> state]
  ELSE NoValue

\* the state setters take effect and the component renders
Render(view, state) ==
  /\ vView' = view
  /\ vState' = state
  /\ vInterval' = TimerEffect(view, state)

ViewInit ==
  /\ vView = "overview"
  /\ vState = NoValue
  /\ vInterval = NoValue
  /\ vExam = NoValue
  /\ vResults = NoValue
  /\ vPending = <<>>
  /\ vClock = 0
  /\ vAttempt = 0
  /\ vSubmits = 0
  /\ vWrites = <<>>

\* the parent shows the view with the series it generated, after its
\* saveExamSeries call resolved (the rows are stored) or rejected (logged)
ViewMount(series, saved) ==
  /\ vExam = NoValue
  /\ vExam' = ExamObject(series.exams[1])
  /\ IF saved
     THEN /\ examSeries' = Put(examSeries, SeriesRow(series, UiSettings(1), JNum(30), Now))
          /\ simulatorExams' = Put(simulatorExams, ExamRow(series, series.exams[1]))
     ELSE UNCHANGED <<examSeries, simulatorExams>>
  /\ UNCHANGED <<vView, vState, vInterval, vResults, vPending, vClock, vAttempt,
                 vSubmits, vWrites>>
  /\ UNCHANGED <<practiceExams, learningPaths, tx, rd, clock, last>>
  /\ UNCHANGED besidesViewAndStore

\* handleStartExam(exam); a render that throws takes the component down
StartExam ==
  LET state == [examId |-> vExam.id,
                currentQuestionIndex |-> 0,
                answers |-> NullAnswers(Len(vExam.questions)),
                startTime |-> vClock,
                timeRemaining |-> MaxSeconds,
                isSubmitted |-> FALSE]
  IN /\ vAttempt < MaxAttempts
     /\ IF RenderThrows(vExam, state)
        THEN vView' = "crashed" /\ vState' = NoValue /\ vInterval' = NoValue
        ELSE Render("taking-exam", state)
  /\ vAttempt' = vAttempt + 1
  /\ vSubmits' = 0
  /\ vWrites' = <<>>
  /\ UNCHANGED <<vResults, vPending, vClock>>
  /\ UNCHANGED besidesView

\* the Start Exam button of an exam that has no score
HandleStartExam ==
  /\ Screen = "overview"
  /\ vExam.score = JUndef
  /\ StartExam
  /\ UNCHANGED vExam

\* the Retake button, of the results screen or of a completed exam
HandleRetakeExam ==
  /\ \/ Screen = "results"
     \/ Screen = "overview" /\ vExam.score # JUndef
  /\ vExam' = ResetOutcome(vExam)
  /\ StartExam

\* handleAnswerSelect(answerIndex)
HandleAnswerSelect(answer) ==
  /\ Screen = "taking-exam"
  /\ vState.currentQuestionIndex < Len(vExam.questions)
  /\ answer \in OfferedAnswers(vExam.questions[vState.currentQuestionIndex + 1])
  /\ Render(vView, [vState EXCEPT !.answers[vState.currentQuestionIndex + 1] = answer])
  /\ UNCHANGED <<vExam, vResults, vPending, vClock, vAttempt, vSubmits, vWrites>>
  /\ UNCHANGED besidesView

\* handleNextQuestion
HandleNextQuestion ==
  /\ Screen = "taking-exam"
  /\ vState.currentQuestionIndex < Len(vExam.questions) - 1
  /\ Render(vView, [vState EXCEPT !.currentQuestionIndex = @ + 1])
  /\ UNCHANGED <<vExam, vResults, vPending, vClock, vAttempt, vSubmits, vWrites>>
  /\ UNCHANGED besidesView

\* handlePreviousQuestion
HandlePreviousQuestion ==
  /\ Screen = "taking-exam"
  /\ vState.currentQuestionIndex > 0
  /\ Render(vView, [vState EXCEPT !.currentQuestionIndex = @ - 1])
  /\ UNCHANGED <<vExam, vResults, vPending, vClock, vAttempt, vSubmits, vWrites>>
  /\ UNCHANGED besidesView

\* handleSubmitExam up to its await, run by a render whose
\* examTakingState is `closure`, at time `now`
RunSubmit(closure, now) ==
  LET score == Score(vExam, closure.answers)
      timeTaken == now - closure.startTime
      call == [examId |-> closure.examId, score |-> score, timeTaken |-> timeTaken]
  IN /\ vSubmits < MaxSubmits
     /\ Len(vPending) < MaxSubmits
     /\ vExam' = [vExam EXCEPT !.score = score, !.completedAt = now,
                                !.timeTaken = JNum(timeTaken)]
     /\ vPending' = Append(vPending, call)
     /\ vWrites' = Append(vWrites, call)
     /\ vSubmits' = vSubmits + 1

\* the Submit Exam button, shown on the last question
HandleSubmitExam ==
  /\ Screen = "taking-exam"
  /\ vState.currentQuestionIndex = Len(vExam.questions) - 1
  /\ RunSubmit(vState, vClock)
  /\ UNCHANGED <<vView, vState, vInterval, vResults, vClock, vAttempt>>
  /\ UNCHANGED besidesView

\* the interval fires: the updater submits at zero, else counts down
TimerTick ==
  /\ vInterval # NoValue
  /\ vClock' = vClock + 1
  /\ IF vState = NoValue \/ vState.timeRemaining <= 0
     THEN /\ RunSubmit(vInterval.closure, vClock')
          /\ UNCHANGED <<vView, vState, vInterval>>
     ELSE /\ Render(vView, [vState EXCEPT !.timeRemaining = @ - 1])
          /\ UNCHANGED <<vExam, vPending, vSubmits, vWrites>>
  /\ UNCHANGED <<vResults, vAttempt>>
  /\ UNCHANGED besidesView

\* updateExamScore settles, resolved or rejected (the catch logs):
\* handleSubmitExam resumes
ScoreWriteSettles(i, resolved) ==
  /\ i \in 1..Len(vPending)
  /\ IF resolved
     THEN simulatorExams' = UpdateScore(simulatorExams, vPending[i].examId,
                                        vPending[i].score.n, vPending[i].timeTaken,
                                        JDate(vClock))
     ELSE UNCHANGED simulatorExams
  /\ vResults' = [score |-> vPending[i].score, timeTaken |-> vPending[i].timeTaken]
  /\ Render("results",
            IF vState = NoValue THEN NoValue ELSE [vState EXCEPT !.isSubmitted = TRUE])
  /\ vPending' = [j \in 1..(Len(vPending) - 1) |->
                    IF j < i THEN vPending[j] ELSE vPending[j + 1]]
  /\ UNCHANGED <<vExam, vClock, vAttempt, vSubmits, vWrites>>
  /\ UNCHANGED <<examSeries, practiceExams, learningPaths, tx, rd, clock, last>>
  /\ UNCHANGED besidesViewAndStore

\* handleBackToOverview
HandleBackToOverview ==
  /\ Screen \in {"results", "taking-exam"}
  /\ Render("overview", NoValue)
  /\ vResults' = NoValue
  /\ UNCHANGED <<vExam, vPending, vClock, vAttempt, vSubmits, vWrites>>
  /\ UNCHANGED besidesView

ViewNext ==
  \/ \E series \in ViewSeriesSet, saved \in BOOLEAN : ViewMount(series, saved)
  \/ HandleStartExam
  \/ HandleRetakeExam
  \/ \E answer \in AnswerChoices : HandleAnswerSelect(answer)
  \/ HandleNextQuestion
  \/ HandlePreviousQuestion
  \/ HandleSubmitExam
  \/ TimerTick
  \/ \E i \in 1..MaxSubmits, resolved \in BOOLEAN : ScoreWriteSettles(i, resolved)
  \/ HandleBackToOverview

(* ------------------------------------------------------------------ *)
(* The generation screens: ExamSimulator, LearningRoad, Solver          *)
(* ------------------------------------------------------------------ *)
\* the text of an error state
ErrorText(message) == [t |-> "error", message |-> message]

SeriesNames == {<<>>, <<"Midterm">>}

InputMethods == {"upload", "text"}

UiInit ==
  /\ uFlow = "none"
  /\ uPc = "idle"
  /\ uError = NoValue
  /\ uContent = NoValue
  /\ uBusy = FALSE
  /\ uScreen = "home"

LoadInit ==
  /\ uLoads = <<>>
  /\ uTaken = NoValue

\* ExamSimulator's render: the series handed to ExamSimulatorView, shown
\* when currentView is 'simulator' and generatedExamSeries is set
ShownSeries ==
  IF uFlow \in {"none", "examSeries"} /\ uScreen = "simulator" /\ uContent # NoValue
  THEN uContent ELSE NoValue

\* otherwise the generator view, with its buttons, is rendered
GeneratorRendered == uFlow \in {"none", "examSeries"} /\ ShownSeries = NoValue

\* ExamSimulator.handleGenerateExamSeries up to its await
UiHandleGenerateExamSeries(seriesName, description, files, n, examTime) ==
  /\ uPc = "idle"
  /\ GeneratorRendered
  /\ ~(Trim(description) = <<>> /\ files = 0)
  /\ uFlow' = "examSeries"
  /\ uError' = NoValue
  /\ uContent' = NoValue
  /\ uBusy' = TRUE
  /\ uScreen' = "generator"
  /\ uPc' = "awaiting"
  /\ GenCall(IF Trim(seriesName) # <<>> THEN Trim(seriesName) ELSE Trim(description),
             Trim(description), files, UiSettings(n), examTime)
  /\ UNCHANGED besidesUiAndGen

\* generateExamSeries settled: the series is shown and saved, or the error is set
UiExamSeriesSettles ==
  /\ uFlow = "examSeries"
  /\ uPc = "awaiting"
  /\ gPc \in {"resolved", "rejected"}
  /\ IF gPc = "resolved"
     THEN /\ uContent' = gOutcome
          /\ uPc' = "saving"
          /\ UNCHANGED <<uError, uBusy>>
     ELSE /\ uError' = ErrorText(MessageOf(gOutcome, UnexpectedError.message))
          /\ uBusy' = FALSE
          /\ uPc' = "settled"
          /\ UNCHANGED uContent
  /\ UNCHANGED <<uFlow, uScreen>>
  /\ UNCHANGED besidesUi

\* LearningRoad.handleGeneratePath up to its await
UiHandleGeneratePath(topicInput) ==
  /\ uPc = "idle"
  /\ uFlow = "none"
  /\ Trim(topicInput) # <<>>
  /\ uFlow' = "learningPath"
  /\ uError' = NoValue
  /\ uBusy' = TRUE
  /\ uScreen' = "input"
  /\ uPc' = "awaiting"
  /\ RoadCall("generateLearningPath", Trim(topicInput), <<>>, <<>>)
  /\ UNCHANGED uContent
  /\ UNCHANGED besidesUiAndRoad

\* generateLearningPath settled
UiPathSettles ==
  /\ uFlow = "learningPath"
  /\ uPc = "awaiting"
  /\ RoadDone
  /\ IF rPc = "resolved"
     THEN /\ uContent' = [steps |-> GetProp(rResult, K("steps")),
                          topic |-> GetProp(rResult, K("topic"))]
          /\ uScreen' = "path"
          /\ uPc' = "saving"
          /\ UNCHANGED <<uError, uBusy>>
     ELSE /\ uError' = ErrorText(MessageOf(rResult, "Failed to generate learning path"))
          /\ uBusy' = FALSE
          /\ uPc' = "settled"
          /\ UNCHANGED <<uContent, uScreen>>
  /\ UNCHANGED uFlow
  /\ UNCHANGED besidesUi

\* saveExamSeries or saveLearningPath settled; a failure is only logged
UiSaveSettles ==
  /\ uPc = "saving"
  /\ uScreen' = IF uFlow = "examSeries" THEN "simulator" ELSE uScreen
  /\ uBusy' = FALSE
  /\ uPc' = "settled"
  /\ UNCHANGED <<uFlow, uError, uContent>>
  /\ UNCHANGED besidesUi

\* the material handleStartLearning shows when generateLearningMaterial rejects
UiFallbackMaterial(title, description) ==
  JObj(<<
    <<K("title"), JStr(title)>>,
    <<K("introduction"), Tmpl("Welcome to learning about", <<title>>)>>,
    <<K("sections"), JArr(<<
       JObj(<<
         <<K("title"), Lit("Overview")>>,
         <<K("content"), JStr(description)>>,
         <<K("examples"),
           Strings(<<"Example 1: Basic concepts", "Example 2: Practical application">>)>> >>) >>)>>,
    <<K("keyPoints"), JUndef>>,
    <<K("summary"), Tmpl("You've learned the fundamentals of", <<title>>)>>,
    <<K("nextSteps"),
      Strings(<<"Practice with exercises", "Take the quiz", "Move to the next topic">>)>>,
    <<K("estimatedReadTime"), JUndef>> >>)

\* the quiz handleStartQuiz shows when generateQuiz rejects
UiFallbackQuiz(title) ==
  JArr(<<
    JObj(<<
      <<K("id"), Lit("1")>>,
      <<K("question"), Tmpl("What is the main concept of", <<title>>)>>,
      <<K("options"), Strings(<<"Option A", "Option B", "Option C", "Option D">>)>>,
      <<K("correctAnswer"), JNum(0)>>,
      <<K("explanation"), Lit("This is the correct answer because...")>>,
      <<K("difficulty"), JUndef>> >>) >>)

\* LearningRoad.handleStartLearning up to its await
UiHandleStartLearning(pathTopic, title, description) ==
  /\ uPc = "idle"
  /\ uFlow' = "material"
  /\ uBusy' = TRUE
  /\ uScreen' = "learning"
  /\ uPc' = "awaiting"
  /\ RoadCall("generateLearningMaterial", pathTopic, title, description)
  /\ UNCHANGED <<uError, uContent>>
  /\ UNCHANGED besidesUiAndRoad

\* generateLearningMaterial settled
UiMaterialSettles ==
  /\ uFlow = "material"
  /\ uPc = "awaiting"
  /\ RoadDone
  /\ uContent' = IF rPc = "resolved" THEN rResult
                 ELSE UiFallbackMaterial(rArgs.stepTitle, rArgs.stepDescription)
  /\ uBusy' = FALSE
  /\ uPc' = "settled"
  /\ UNCHANGED <<uFlow, uError, uScreen>>
  /\ UNCHANGED besidesUi

\* LearningRoad.handleStartQuiz up to its await
UiHandleStartQuiz(pathTopic, title) ==
  /\ uPc = "idle"
  /\ uFlow' = "quiz"
  /\ uBusy' = TRUE
  /\ uScreen' = "quiz"
  /\ uPc' = "awaiting"
  /\ RoadCall("generateQuiz", pathTopic, title, <<>>)
  /\ UNCHANGED <<uError, uContent>>
  /\ UNCHANGED besidesUiAndRoad

\* generateQuiz settled
UiQuizSettles ==
  /\ uFlow = "quiz"
  /\ uPc = "awaiting"
  /\ RoadDone
  /\ uContent' = IF rPc = "resolved" THEN rResult ELSE UiFallbackQuiz(rArgs.stepTitle)
  /\ uBusy' = FALSE
  /\ uPc' = "settled"
  /\ UNCHANGED <<uFlow, uError, uScreen>>
  /\ UNCHANGED besidesUi

\* Solver.handleProcessProblems up to its await
UiHandleProcessProblems(inputMethod, files, textInput) ==
  /\ uPc = "idle"
  /\ ~(inputMethod = "upload" /\ files = 0)
  /\ ~(inputMethod = "text" /\ Trim(textInput) = <<>>)
  /\ uFlow' = IF inputMethod = "upload" THEN "solverFiles" ELSE "solverText"
  /\ uError' = NoValue
  /\ uBusy' = TRUE
  /\ uScreen' = "processing"
  /\ uPc' = "awaiting"
  /\ IF inputMethod = "upload" THEN AnalyzeProblemsCall(files)
     ELSE AnalyzeProblemsTextCall(textInput)
  /\ UNCHANGED uContent
  /\ UNCHANGED besidesUiAndRoad

\* analyzeProblems or analyzeProblemsText settled
UiProblemsSettle ==
  /\ uFlow \in {"solverFiles", "solverText"}
  /\ uPc = "awaiting"
  /\ RoadDone
  /\ IF rPc = "resolved"
     THEN IF Len(rResult.items) = 0
          THEN /\ uError' = ErrorText("No problems were found")
               /\ UNCHANGED <<uContent, uScreen>>
          ELSE /\ uContent' = rResult
               /\ uScreen' = "results"
               /\ UNCHANGED uError
     ELSE /\ uError' = ErrorText(MessageOf(rResult, "An unexpected error occurred while processing your files."))
          /\ UNCHANGED <<uContent, uScreen>>
  /\ uBusy' = FALSE
  /\ uPc' = "settled"
  /\ UNCHANGED uFlow
  /\ UNCHANGED besidesUi

\* what getExamSeries returns for series S once saveExamSeries stored it
SavedSeries(S) ==
  LoadedSeries(SeriesRow(S, UiSettings(S.totalExams), JNum(30), JDate(StoreEpoch)),
               [i \in 1..Len(S.exams) |-> ExamRow(S, S.exams[i])])

\* ExamSimulator.handleLoadSavedSeries(seriesId) up to its await: the
\* Load button of a row of the saved-series list
UiHandleLoadSavedSeries(series) ==
  /\ GeneratorRendered
  /\ Len(uLoads) < MaxLoads
  /\ uLoads' = Append(uLoads, series)
  /\ uFlow' = "examSeries"
  /\ UNCHANGED <<uPc, uError, uContent, uBusy, uScreen, uTaken>>
  /\ UNCHANGED besidesUiAndLoad

\* getExamSeries settles for the i-th load in flight: a series is shown;
\* null (the series was deleted meanwhile) and a rejection change nothing
UiLoadSettles(i, outcome) ==
  /\ i \in 1..Len(uLoads)
  /\ uLoads' = [j \in 1..(Len(uLoads) - 1) |-> IF j < i THEN uLoads[j] ELSE uLoads[j + 1]]
  /\ IF outcome = "found"
     THEN /\ uContent' = SavedSeries(uLoads[i])
          /\ uScreen' = "simulator"
     ELSE UNCHANGED <<uContent, uScreen>>
  /\ UNCHANGED <<uFlow, uPc, uError, uBusy, uTaken>>
  /\ UNCHANGED besidesUiAndLoad

\* ExamSimulatorView.handleStartExam on an exam of the series it was given
UiStartsExam ==
  /\ ShownSeries # NoValue
  /\ uTaken = NoValue
  /\ uTaken' = ShownSeries
  /\ UNCHANGED uLoads
  /\ UNCHANGED besidesLoad

\* ExamSimulatorView leaves the exam: handleBackToOverview
UiLeavesExam ==
  /\ ShownSeries # NoValue
  /\ uTaken # NoValue
  /\ uTaken' = NoValue
  /\ UNCHANGED uLoads
  /\ UNCHANGED besidesLoad

\* resetForm, the view's onBackToGenerator, offered on its overview
UiResetForm ==
  /\ ShownSeries # NoValue
  /\ uTaken = NoValue
  /\ uContent' = NoValue
  /\ uError' = NoValue
  /\ uScreen' = "generator"
  /\ UNCHANGED <<uFlow, uPc, uBusy, uLoads, uTaken>>
  /\ UNCHANGED besidesUiAndLoad

\* the exam simulator screen alone: generating, loading saved series,
\* and taking exams of the series shown
SimulatorNext ==
  \/ \E seriesName \in SeriesNames, n \in 1..MaxExams, examTime \in ExamTimes :
       UiHandleGenerateExamSeries(seriesName, <<"covers linear equations">>, 0, n, examTime)
  \/ UiExamSeriesSettles
  \/ UiSaveSettles
  \/ \E text \in {TextValid, TextTruncated} : GenCompletionReturns(text)
  \/ \E error \in CompletionErrors : GenCompletionThrows(error)
  \/ GenDelayElapsed
  \/ \E S \in StoreSeries : UiHandleLoadSavedSeries(S)
  \/ \E i \in 1..MaxLoads, outcome \in {"found", "missing", "rejected"} :
       UiLoadSettles(i, outcome)
  \/ UiStartsExam
  \/ UiLeavesExam
  \/ UiResetForm

UiNext ==
  \/ \E seriesName \in SeriesNames, description \in Descriptions, files \in 0..MaxFiles,
        n \in 1..MaxExams, examTime \in ExamTimes :
       UiHandleGenerateExamSeries(seriesName, description, files, n, examTime)
  \/ UiExamSeriesSettles
  \/ \E topicInput \in Topics : UiHandleGeneratePath(topicInput)
  \/ UiPathSettles
  \/ UiSaveSettles
  \/ \E pathTopic \in Topics, title \in StepTitles, description \in StepDescriptions :
       UiHandleStartLearning(pathTopic, title, description)
  \/ UiMaterialSettles
  \/ \E pathTopic \in Topics, title \in StepTitles : UiHandleStartQuiz(pathTopic, title)
  \/ UiQuizSettles
  \/ \E inputMethod \in InputMethods, files \in 0..MaxSolverFiles,
        textInput \in ProblemTexts :
       UiHandleProcessProblems(inputMethod, files, textInput)
  \/ UiProblemsSettle
  \/ GenFileEncoded
  \/ GenFileFails
  \/ \E text \in Responses : GenCompletionReturns(text)
  \/ \E error \in CompletionErrors : GenCompletionThrows(error)
  \/ GenDelayElapsed
  \/ \E text \in ServiceTexts : RoadCompletionReturns(text)
  \/ \E error \in CompletionErrors \cup {GeminiError} : RoadCompletionThrows(error)
  \/ SolverExtractionReturns
  \/ SolverExtractionThrows
  \/ \E text \in ServiceTexts : SolverCompletionReturns(text)
  \/ \E error \in CompletionErrors : SolverCompletionThrows(error)

\* exam.estimatedTime * 60 of handleStartExam: the countdown in seconds
InitialCountdown(exam) ==
  IF exam.estimatedTime.t = "num" THEN JNum(exam.estimatedTime.n * 60) ELSE JNaN

(* ------------------------------------------------------------------ *)
(* Specifications                                                       *)
(* ------------------------------------------------------------------ *)
vars == <<genVars, storeVars, cleanVars, ossVars, roadVars, viewVars, uiVars, loadVars>>

Init == GenInit /\ StoreInit /\ CleanInit /\ OssInit /\ RoadInit /\ ViewInit /\ UiInit /\ LoadInit

\* one generateExamSeries call
SpecGen == Init /\ [][GenNext]_vars

\* one generateExamSeries call, series of up to MaxLevels exams
\* the steps the platform's scheduling guarantees: a FileReader fires
\* load or error, a pending completion settles, a timer fires
GenSettles ==
  \/ GenFileEncoded
  \/ GenFileFails
  \/ \E text \in Responses : GenCompletionReturns(text)
  \/ \E error \in CompletionErrors : GenCompletionThrows(error)
  \/ GenDelayElapsed

SpecGenFair == Init /\ [][GenNext]_vars /\ WF_vars(GenSettles)

SpecLevels == Init /\ [][LevelsNext]_vars

\* the operations of the store, interleaved
SpecStore == Init /\ [][StoreNext]_vars

\* one call of getOssResponse
SpecOss == Init /\ [][OssNext]_vars

\* one call of a cleanJsonResponse
SpecClean == Init /\ [][CleanNext]_vars

\* one call of a learning-road or solver generation operation
SpecRoad == Init /\ [][RoadNext]_vars

\* the exam view: attempts at one exam
SpecView == Init /\ [][ViewNext]_vars

\* one generation flow started from its screen
SpecUi == Init /\ [][UiNext]_vars

SpecSimulator == Init /\ [][SimulatorNext]_vars

(* ------------------------------------------------------------------ *)
(* Properties of generateExamSeries                                     *)
(* ------------------------------------------------------------------ *)
\* numberOfExams of the running or finished call
GenN == gArgs.settings.numberOfExams

\* a run is over and getOssResponse returned text for every level
AllTextsReturned == gPc # "idle" /\ Len(gTexts) = GenN

\* the text does not parse as JSON after normalization
Unparseable(text) == ~JsonParse(cleanJsonResponse(text)).ok

\* C1: whatever texts the N completions return (well-formed, malformed,
\* empty, wrong shape), the call resolves, to a series with totalExams = N
\* and exactly N exams whose difficultyLevel values are 1, 2, ..., N in order.
C1_SeriesHasLevelsOneToN ==
  /\ AllTextsReturned => gPc = "resolved"
  /\ gPc = "resolved" =>
       /\ gOutcome.totalExams = GenN
       /\ Len(gOutcome.exams) = GenN
       /\ \A i \in 1..Len(gOutcome.exams) : gOutcome.exams[i].difficultyLevel = i

\* a resolved run of at least two levels whose texts include a truncated
\* one and one of the wrong shape
C1_Witness ==
  /\ gPc = "resolved"
  /\ \E i, j \in 1..Len(gTexts) :
       gTexts[i] = TextTruncated /\ gTexts[j] = TextNoQuestions

\* C2: when the completion throws at level k the call rejects with that
\* very error, returns no series, has called the completion once for each
\* of the levels 1..k and for no level above k.
C2_CompletionThrowAborts ==
  gThrown # NoValue =>
    /\ gPc = "rejected"
    /\ gOutcome = gThrown
    /\ gCalls = [i \in 1..gLevel |-> i]
    /\ Len(gTexts) = gLevel - 1

\* the completion threw at level 2, after the exam of level 1 was built
C2_Witness == gThrown # NoValue /\ gLevel = 2 /\ Len(gExams) = 1 /\ GenN = 3

\* C3: a level whose text is unparseable does not make the call reject;
\* the next level is generated, the series has N exams, and the exam of
\* that level is a fallback: one question, difficultyLevel k, the label
\* the table gives for k.
C3_UnparseableLevelFallsBack ==
  \A k \in 1..Len(gTexts) :
    Unparseable(gTexts[k]) =>
      /\ Len(gExams) >= k
      /\ Len(gExams[k].questions) = 1
      /\ gExams[k].difficultyLevel = k
      /\ gExams[k].difficultyLabel = DifficultyLabels[k]
      /\ gPc = "rejected" => gThrown # NoValue
      /\ gPc = "resolved" => Len(gOutcome.exams) = GenN /\ gOutcome.exams[k] = gExams[k]
      /\ k < GenN => \/ gPc = "delay" /\ gLevel = k
                     \/ \E c \in 1..Len(gCalls) : gCalls[c] = k + 1

\* the spec's scenario: three levels, level 2 unparseable, levels 1 and 3 valid
C3_Witness ==
  /\ gPc = "resolved"
  /\ gTexts = <<TextValid, TextTruncated, TextProse>>
  /\ Len(gOutcome.exams[1].questions) = 2

(* ------------------------------------------------------------------ *)
(* Properties of the store                                              *)
(* ------------------------------------------------------------------ *)
\* no transaction is in progress and the operation that completed last is op
JustCompleted(op) == tx = NoValue /\ last.op = op

\* the ids of the simulatorExams rows of a series
ExamKeysOf(table, seriesId) == {k \in DOMAIN table : table[k].seriesId = seriesId}

\* C4: saveExamSeries is all-or-nothing. When it resolves the store holds
\* the series row and one simulatorExams row per exam of the series, each
\* with the series id as seriesId; when a write fails it rejects and
\* examSeries and simulatorExams are what they were before the call.
C4_SaveIsAllOrNothing ==
  JustCompleted("saveExamSeries") =>
    LET S == last.arg.series
    IN /\ last.outcome = "resolved" =>
            /\ S.id \in DOMAIN examSeries
            /\ examSeries[S.id].totalExams = S.totalExams
            /\ ExamKeysOf(simulatorExams, S.id) = {S.exams[i].id : i \in 1..Len(S.exams)}
            /\ Cardinality(ExamKeysOf(simulatorExams, S.id)) = Len(S.exams)
       /\ last.outcome = "rejected" =>
            /\ examSeries = last.before.examSeries
            /\ simulatorExams = last.before.simulatorExams

\* a save of the two-exam series into the empty store failed after it had
\* put the series row and one exam row
C4_Witness ==
  /\ JustCompleted("saveExamSeries")
  /\ last.outcome = "rejected"
  /\ last.requests = 2
  /\ Len(last.arg.series.exams) = 2
  /\ last.before.examSeries = EmptyTable

\* C5: under every interleaving with saveExamSeries, deleteExamSeries and
\* clearAllData, a getExamSeries that returns a series returns it with
\* exactly totalExams exams.
C5_ReaderSeesWholeSeries ==
  (last.op = "getExamSeries" /\ last.value # JNull) =>
    Len(last.value.exams) = last.value.totalExams

\* the series a stored id belongs to
SeriesOfId(seriesId) == CHOOSE S \in StoreSeries : S.id = seriesId

\* getExamSeries returned a series and no write committed between its reads
LoadedUndisturbed ==
  /\ last.op = "getExamSeries"
  /\ last.value # JNull
  /\ ~last.raced

\* C6: saveExamSeries(S) then getExamSeries(S.id) returns the id, topic,
\* description and totalExams of S, and the exams of S in ascending
\* difficultyLevel, each with the same id, title, totalPoints,
\* estimatedTime, difficultyLevel, difficultyLabel and questions.
C6_SaveThenGetRoundTrip ==
  LoadedUndisturbed =>
    LET S == SeriesOfId(last.arg)
        L == last.value
    IN /\ L.id = S.id
       /\ L.topic = S.topic
       /\ L.description = S.description
       /\ L.totalExams = S.totalExams
       /\ Len(L.exams) = Len(S.exams)
       /\ \A i \in 1..Len(L.exams) :
            /\ i > 1 => L.exams[i - 1].difficultyLevel <= L.exams[i].difficultyLevel
            /\ L.exams[i].id = S.exams[i].id
            /\ L.exams[i].title = S.exams[i].title
            /\ L.exams[i].totalPoints = S.exams[i].totalPoints
            /\ L.exams[i].estimatedTime = S.exams[i].estimatedTime
            /\ L.exams[i].difficultyLevel = S.exams[i].difficultyLevel
            /\ L.exams[i].difficultyLabel = S.exams[i].difficultyLabel
            /\ L.exams[i].questions = S.exams[i].questions

\* C7: after updateExamScore(e, s, t), getExamSeries returns exam e with
\* score s, timeTaken t and a completedAt; an exam never scored comes back
\* with no score.
C7_ScoreRoundTrips ==
  LoadedUndisturbed =>
    \A i \in 1..Len(last.value.exams) :
      LET e == last.value.exams[i]
          row == last.before.simulatorExams[e.id]
      IN IF row.score = JUndef
         THEN "score" \in DOMAIN e => e.score = JUndef
         ELSE /\ {"score", "timeTaken", "completedAt"} \subseteq DOMAIN e
              /\ e.score = row.score
              /\ e.timeTaken = row.timeTaken
              /\ e.completedAt # JUndef

\* C8: after deleteExamSeries(s) resolves, getAllExamSeries has no series s
\* and no simulatorExams row has seriesId s, while the rows of the other
\* series are as before; and in every reachable state each simulatorExams
\* row's seriesId is the id of an examSeries row.
C8_DeleteCascadesNoOrphans ==
  /\ \A k \in DOMAIN simulatorExams : simulatorExams[k].seriesId \in DOMAIN examSeries
  /\ (JustCompleted("deleteExamSeries") /\ last.outcome = "resolved") =>
       LET s == last.arg
           all == AllExamSeries(examSeries)
           before == last.before
       IN /\ \A i \in 1..Len(all) : all[i].id # s
          /\ ExamKeysOf(simulatorExams, s) = {}
          /\ \A k \in DOMAIN before.simulatorExams :
               before.simulatorExams[k].seriesId # s =>
                 k \in DOMAIN simulatorExams /\ simulatorExams[k] = before.simulatorExams[k]
          /\ \A k \in DOMAIN before.examSeries \ {s} :
               k \in DOMAIN examSeries /\ examSeries[k] = before.examSeries[k]

\* one of two stored series was deleted; it had exams, and the other's remain
C8_Witness ==
  /\ JustCompleted("deleteExamSeries")
  /\ last.outcome = "resolved"
  /\ Cardinality(DOMAIN last.before.examSeries) = 2
  /\ ExamKeysOf(last.before.simulatorExams, last.arg) # {}
  /\ simulatorExams # EmptyTable

\* updateExamScore resolved for an exam the store holds
ScoreUpdated ==
  /\ JustCompleted("updateExamScore")
  /\ last.outcome = "resolved"
  /\ last.arg.examId \in DOMAIN last.before.simulatorExams

\* C9: updateExamScore on a row that already has an outcome leaves the
\* second call's score, timeTaken and completedAt, and nothing of the first.
C9_SecondScoreReplacesFirst ==
  ScoreUpdated =>
    LET row == simulatorExams[last.arg.examId]
    IN /\ row.score = JNum(last.arg.score)
       /\ row.timeTaken = JNum(last.arg.timeTaken)
       /\ row.completedAt = ToISOString(last.arg.at)

\* the second update of an exam: (50, 7) at an earlier time, then (100, 3)
C9_Witness ==
  /\ ScoreUpdated
  /\ last.before.simulatorExams[last.arg.examId].score = JNum(50)
  /\ last.before.simulatorExams[last.arg.examId].timeTaken = JNum(7)
  /\ last.before.simulatorExams[last.arg.examId].completedAt # ToISOString(last.arg.at)
  /\ last.arg.score = 100
  /\ last.arg.timeTaken = 3

\* the row with its score, completedAt and timeTaken taken from another
WithOutcomeOf(row, other) ==
  [row EXCEPT !.score = other.score, !.completedAt = other.completedAt,
              !.timeTaken = other.timeTaken]

\* C10: updateExamScore(e, s, t) changes only score, completedAt and
\* timeTaken of row e: its other fields, the other simulatorExams rows and
\* the other three tables are unchanged.
C10_UpdateChangesOnlyOutcome ==
  (JustCompleted("updateExamScore") /\ last.outcome = "resolved") =>
    LET e == last.arg.examId
        before == last.before
    IN /\ examSeries = before.examSeries
       /\ practiceExams = before.practiceExams
       /\ learningPaths = before.learningPaths
       /\ DOMAIN simulatorExams = DOMAIN before.simulatorExams
       /\ \A k \in DOMAIN simulatorExams :
            IF k = e
            THEN /\ DOMAIN simulatorExams[k] = DOMAIN before.simulatorExams[k]
                 /\ WithOutcomeOf(simulatorExams[k], before.simulatorExams[k])
                      = before.simulatorExams[k]
            ELSE simulatorExams[k] = before.simulatorExams[k]

\* the score of one of two stored exams was updated
C10_Witness ==
  /\ ScoreUpdated
  /\ Cardinality(DOMAIN simulatorExams) = 2
  /\ simulatorExams[last.arg.examId].score = JNum(50)
  /\ \E k \in DOMAIN simulatorExams : simulatorExams[k].score = JUndef

\* C11: a learning path saved with out-of-order, duplicate or missing step
\* numbers comes back from getLearningPath with its i-th step numbered i.
C11_StoredStepsRenumbered ==
  (last.op = "getLearningPath" /\ last.value # JNull) =>
    \A i \in 1..Len(last.value.steps.items) :
      GetProp(last.value.steps.items[i], K("step")) = JNum(i)

\* C12: every operation of the store propagates a failure of the
\* underlying store as a rejection; none turns it into a normal result.
C12_StoreFailurePropagates == last.failed => last.outcome = "rejected"

(* ------------------------------------------------------------------ *)
(* Properties of cleanJsonResponse                                      *)
(* ------------------------------------------------------------------ *)
\* C13: for every valid JSON payload wrapped in whitespace and at most
\* one pair of fences, with or without the json tag, the text that
\* cleanJsonResponse returns parses to the payload.
C13_ExtractThenParseRecovers ==
  jPayload # NoValue => /\ JsonParse(jCleaned).ok
                     /\ JsonParse(jCleaned).v = jPayload

(* ------------------------------------------------------------------ *)
(* Properties of getOssResponse                                         *)
(* ------------------------------------------------------------------ *)
\* the call is over
OssDone == oPc \in {"returned", "threw"}

\* the response's first choice has no message content
LacksContent ==
  /\ oResponse # NoValue
  /\ LET parsed == JsonParse(oResponse.body)
     IN /\ parsed.ok
        /\ ~ContentThrows(parsed.v)
        /\ Falsy(OptProp(OptProp(First(GetProp(parsed.v, K("choices"))), K("message")),
                         K("content")))

\* C14: a network error, a non-2xx status and a response whose first
\* choice lacks message content each make getOssResponse throw; none of
\* them comes back as returned text.
C14_FailureModesThrow ==
  (OssDone /\ (\/ oNetwork
               \/ oResponse # NoValue /\ oResponse.status \notin 200..299
               \/ LacksContent))
    => oPc = "threw"

(* ------------------------------------------------------------------ *)
(* Properties of the generation operations                              *)
(* ------------------------------------------------------------------ *)
\* C15: when the completion or extraction capability threw during a
\* generation operation, the operation rejects and returns no record
C15_TransportFailureRejects == (RoadDone /\ rThrew) => rPc = "rejected"

(* ------------------------------------------------------------------ *)
(* generateExamSeries: the input precondition                           *)
(* ------------------------------------------------------------------ *)
\* C18: a call whose description is empty or only whitespace and whose
\* file list is empty rejects at once with the input error; no file is
\* encoded, no prompt is built, no completion is called, no delay is waited.
C18_EmptyInputRejectsAtOnce ==
  (gPc # "idle" /\ Trim(gArgs.description) = <<>> /\ gArgs.files = 0) =>
    /\ gPc = "rejected"
    /\ gOutcome = InputError
    /\ gFilesDone = 0
    /\ gCalls = <<>>
    /\ gTexts = <<>>
    /\ gExams = <<>>
    /\ gDelays = 0

\* a whitespace-only description with no files was rejected
C18_Witness ==
  /\ gPc = "rejected"
  /\ gArgs.description = <<" ">>
  /\ gArgs.files = 0
  /\ gOutcome = InputError

(* ------------------------------------------------------------------ *)
(* generateExamSeries: the difficulty labels                            *)
(* ------------------------------------------------------------------ *)
\* C19: every exam of a series, parsed or fallback, at a level k of 1..7
\* has the label the fixed table gives for k, whatever difficultyLevel or
\* difficultyLabel the completion's JSON carries.
C19_LabelsFollowTheTable ==
  /\ \A k \in 1..Len(gExams) :
       k \in DOMAIN DifficultyLabels =>
         /\ gExams[k].difficultyLevel = k
         /\ gExams[k].difficultyLabel = DifficultyLabels[k]
  /\ gPc = "resolved" => gOutcome.exams = gExams

\* a returned series of seven exams, parsed and fallback, whose last
\* exam's JSON carried the label "Easy"; and a returned series of two
C19_Witness ==
  /\ gPc = "resolved"
  /\ Len(gOutcome.exams) = 7
  /\ gTexts[7] = TextOwnLabel
  /\ gTexts[2] = TextOwnLabel
  /\ gTexts[6] = TextTruncated
  /\ gOutcome.exams[7].difficultyLabel = "Genius"
  /\ gOutcome.exams[2].difficultyLabel = "Beginner"

(* ------------------------------------------------------------------ *)
(* The learning-road operations: unparseable completions                *)
(* ------------------------------------------------------------------ *)
\* what the interfaces LearningPath, LearningMaterial and QuizQuestion[]
\* require at least of the parsed value
ExpectedShape(op, v) ==
  CASE op = "generateLearningPath" ->
         v.t = "obj" /\ GetProp(v, K("steps")).t = "arr"
    [] op = "generateLearningMaterial" ->
         v.t = "obj" /\ GetProp(v, K("sections")).t = "arr"
    [] op = "generateQuiz" ->
         v.t = "arr" /\ \A i \in 1..Len(v.items) : v.items[i].t = "obj"

\* the text does not parse, after normalization, into the shape of op
Misshapen(op, text) ==
  LET parsed == JsonParse(cleanJsonResponse(text))
  IN ~parsed.ok \/ ~ExpectedShape(op, parsed.v)

RoadFallback(op, args, now) ==
  CASE op = "generateLearningPath" -> createFallbackLearningPath(args.topic, now)
    [] op = "generateLearningMaterial" ->
         createFallbackLearningMaterial(args.topic, args.stepTitle,
                                        args.stepDescription, now)
    [] op = "generateQuiz" -> createFallbackQuiz(args.topic, args.stepTitle, now)

\* C20: when the completion returned a text that does not parse into the
\* expected shape, a learning-road operation resolves to its fallback:
\* a path of three steps numbered 1, 2, 3, the fallback material of the
\* requested step, or a list of exactly one fallback question.
C20_MisshapenTextFallsBack ==
  (rOp \in RoadOps /\ rTexts # <<>> /\ Misshapen(rOp, rTexts[1])) =>
    /\ rPc = "resolved"
    /\ rResult = RoadFallback(rOp, rArgs, rNow)
    /\ rOp = "generateLearningPath" =>
         LET steps == GetProp(rResult, K("steps")).items
         IN /\ Len(steps) = 3
            /\ \A i \in 1..3 : GetProp(steps[i], K("step")) = JNum(i)
    /\ rOp = "generateLearningMaterial" =>
         GetProp(rResult, K("stepTitle")) = JStr(rArgs.stepTitle)
    /\ rOp = "generateQuiz" => Len(rResult.items) = 1

(* ------------------------------------------------------------------ *)
(* Properties of the exam view                                          *)
(* ------------------------------------------------------------------ *)
\* C17: in each exam attempt, whatever the interleaving of manual submit,
\* timer ticks and the asynchronous score write, handleSubmitExam runs and
\* updateExamScore is invoked at most once, and exactly once when the
\* attempt is submitted.
C17_SubmittedOncePerAttempt ==
  /\ vSubmits <= 1
  /\ Len(vWrites) <= 1
  /\ (vState # NoValue /\ vState.isSubmitted) => (vSubmits = 1 /\ Len(vWrites) = 1)

(* ------------------------------------------------------------------ *)
(* Properties of the generation screens                                 *)
(* ------------------------------------------------------------------ *)
\* the completion or extraction capability threw during the flow's call
TransportFailed == rThrew \/ gThrown # NoValue

\* C16: a generation flow whose call met a transport failure ends with an
\* error message set and with no generated, fallback or placeholder
\* content on screen for that request.
C16_TransportFailureShowsError ==
  (uPc = "settled" /\ TransportFailed) =>
    /\ uError # NoValue
    /\ uContent = NoValue

(* ------------------------------------------------------------------ *)
(* C21                                                                  *)
(* ------------------------------------------------------------------ *)
\* the completion call of the run that has not settled yet
CallsInFlight == Len(gCalls) - Len(gTexts) - (IF gThrown = NoValue THEN 0 ELSE 1)

\* C21: within one generateExamSeries run the completion calls are issued
\* for the levels 1, 2, ... in ascending order with at most one in flight;
\* the call for level k+1 is issued only after the call for level k has
\* returned, its exam has been appended and the delay after level k has
\* elapsed; a complete run has exactly N-1 delays and none after level N
C21_OneCallAtATimeInLevelOrder ==
  /\ gCalls = [k \in 1..Len(gCalls) |-> k]
  /\ CallsInFlight = (IF gPc = "await" THEN 1 ELSE 0)
  /\ Len(gCalls) > 0 =>
       /\ Len(gTexts) >= Len(gCalls) - 1
       /\ Len(gExams) >= Len(gCalls) - 1
       /\ gDelays = Len(gCalls) - 1
  /\ gPc = "delay" => (gLevel < GenN /\ Len(gExams) = gLevel)
  /\ gPc = "resolved" => (Len(gCalls) = GenN /\ gDelays = GenN - 1)

C21_Witness ==
  /\ gPc = "resolved"
  /\ GenN = MaxExams
  /\ gCalls = [k \in 1..MaxExams |-> k]
  /\ gDelays = MaxExams - 1

(* ------------------------------------------------------------------ *)
(* C22                                                                  *)
(* ------------------------------------------------------------------ *)
GenSettled == gPc \in {"resolved", "rejected"}

\* at most N calls, none of them a second call for a level, and the run
\* is resolved exactly when getOssResponse returned for all N levels
CallBudgetKept ==
  gPc # "idle" =>
    /\ Len(gCalls) <= GenN
    /\ \A i, j \in 1..Len(gCalls) : gCalls[i] = gCalls[j] => i = j
    /\ (gPc = "resolved") = (Len(gTexts) = GenN)

\* C22: if every completion call settles and every delay timer fires, a
\* generateExamSeries call for N exams eventually resolves or rejects,
\* with at most N completion calls, at most one per level, and it
\* resolves exactly when all N calls returned
C22_RunSettlesWithinNCalls ==
  /\ [](CallBudgetKept)
  /\ (gPc # "idle") ~> GenSettled

C22_Witness ==
  /\ gPc = "rejected"
  /\ GenN = MaxExams
  /\ Len(gCalls) = MaxExams
  /\ Len(gTexts) = MaxExams - 1

(* ------------------------------------------------------------------ *)
(* C25                                                                  *)
(* ------------------------------------------------------------------ *)
\* the questions the text of level i carried, as parsed
ParsedQuestions(i) ==
  GetProp(JsonParse(cleanJsonResponse(gTexts[i])).v, K("questions")).items

\* C25: on parse success every question of the constructed exam has an
\* integer points value: a question that carries points keeps it, one
\* without points gets round(100 / settings.questionsPerExam), for every
\* accepted settings object, one that only gives numberOfExams included
C25_EveryQuestionHasIntegerPoints ==
  \A i \in 1..Len(gExams) :
    ~ParseFails(gTexts[i]) =>
      \A j \in 1..Len(gExams[i].questions) :
        LET carried == GetProp(ParsedQuestions(i)[j], K("points"))
            points == GetProp(gExams[i].questions[j], K("points"))
        IN /\ points.t = "num"
           /\ carried # JUndef => points = carried

(* ------------------------------------------------------------------ *)
(* C26                                                                  *)
(* ------------------------------------------------------------------ *)
\* the text parses as JSON but the value has no questions array
WrongShape(text) ==
  LET parsed == JsonParse(cleanJsonResponse(text))
  IN parsed.ok /\ GetProp(parsed.v, K("questions")).t # "arr"

\* C26: a level whose text parses as JSON but has the wrong shape is
\* treated like unparseable text: the call does not reject because of it,
\* the level gets the single-question fallback exam, and generation goes
\* on with the next level
C26_WrongShapeFallsBack ==
  \A k \in 1..Len(gTexts) :
    WrongShape(gTexts[k]) =>
      /\ Len(gExams) >= k
      /\ \E now \in 1..gNow :
           gExams[k] = FallbackExam(k, gArgs.seriesTopic, gArgs.settings, now)
      /\ Len(gExams[k].questions) = 1
      /\ gPc = "rejected" => gThrown # NoValue
      /\ k < GenN => Len(gCalls) > k \/ gPc = "delay"

\* a resolved run whose first level had no questions, whose second level
\* had a number for questions, and whose third level was well-formed
C26_Witness ==
  /\ gPc = "resolved"
  /\ gTexts = <<TextNoQuestions, TextQuestionsNotAList, TextValid>>
  /\ Len(gOutcome.exams[3].questions) = 2

(* ------------------------------------------------------------------ *)
(* C27                                                                  *)
(* ------------------------------------------------------------------ *)
\* C27: every exam of a series that generateExamSeries builds, parsed or
\* fallback, has estimatedTime equal to the examTime argument, so that
\* starting it gives a countdown of examTime * 60 seconds
C27_EstimatedTimeIsExamTime ==
  \A i \in 1..Len(gExams) :
    /\ gExams[i].estimatedTime = gArgs.examTime
    /\ InitialCountdown(gExams[i]) = JNum(gArgs.examTime.n * 60)

(* ------------------------------------------------------------------ *)
(* C23                                                                  *)
(* ------------------------------------------------------------------ *)
\* the interval fired with the countdown at zero and ran handleSubmitExam
AutoSubmitStep ==
  /\ vClock' = vClock + 1
  /\ vSubmits' = vSubmits + 1
  /\ vState # NoValue
  /\ vState.timeRemaining <= 0

\* C23: when the countdown reaches zero before the user submits, the exam
\* is submitted automatically and the recorded score is the score of the
\* answers selected up to that moment, the one a manual submit at that
\* moment would record
C23_AutoSubmitScoresSelectedAnswers ==
  [][AutoSubmitStep =>
       /\ vExam'.score = Score(vExam, vState.answers)
       /\ vWrites'[Len(vWrites')].score = Score(vExam, vState.answers)]_vars

(* ------------------------------------------------------------------ *)
(* C24                                                                  *)
(* ------------------------------------------------------------------ *)
\* an integer from 0 to 100
IsPercentage(v) == v.t = "num" /\ v.n \in 0..100

\* C24: every score handleSubmitExam records, on the exam object and
\* through updateExamScore, is an integer in 0..100, for every exam
\* generateExamSeries can return, one with an empty questions list included
C24_RecordedScoresArePercentages ==
  /\ (vExam # NoValue /\ vExam.score # JUndef) => IsPercentage(vExam.score)
  /\ \A i \in 1..Len(vWrites) : IsPercentage(vWrites[i].score)
  /\ \A i \in 1..Len(vPending) : IsPercentage(vPending[i].score)
  /\ vResults # NoValue => IsPercentage(vResults.score)
  /\ \A k \in DOMAIN simulatorExams :
       simulatorExams[k].score # JUndef => IsPercentage(simulatorExams[k].score)

\* a submit with the first question answered correctly was recorded in
\* memory and in the store
C24_Witness ==
  /\ vExam # NoValue
  /\ vExam.score = JNum(50)
  /\ vExam.id \in DOMAIN simulatorExams
  /\ simulatorExams[vExam.id].score = JNum(50)

(* ------------------------------------------------------------------ *)
(* C28                                                                  *)
(* ------------------------------------------------------------------ *)
\* updateExamScore completed for an exam id that had no row
UnknownScoreUpdated ==
  /\ JustCompleted("updateExamScore")
  /\ last.arg.examId \notin DOMAIN last.before.simulatorExams

\* C28: updateExamScore(e, s, t) for an exam id that is not in the store
\* resolves without error, creates no row and leaves every table
\* unchanged; so the submit of an exam whose series was never stored,
\* because saveExamSeries failed, records nothing
C28_UnknownExamIdChangesNothing ==
  UnknownScoreUpdated =>
    /\ last.failed \/ last.outcome = "resolved"
    /\ last.arg.examId \notin DOMAIN simulatorExams
    /\ Tables = last.before

\* the score of an exam of a generated series that the store does not
\* hold was updated, while the store holds another series
C28_Witness ==
  /\ UnknownScoreUpdated
  /\ last.outcome = "resolved"
  /\ last.arg.examId \in ExamIds
  /\ simulatorExams # EmptyTable

(* ------------------------------------------------------------------ *)
(* C29                                                                  *)
(* ------------------------------------------------------------------ *)
\* the series of the view was saved, and no score write is in flight
SavedAndSettled ==
  /\ vExam # NoValue
  /\ vExam.id \in DOMAIN simulatorExams
  /\ vPending = <<>>

\* C29: for a series that was saved, after any sequence of start, answer,
\* submit, retake and exit-to-overview actions the exam's in-memory
\* outcome agrees with its stored row: the score is absent in memory
\* exactly when it is absent in the row, and otherwise score and
\* timeTaken are the same in both
C29_MemoryAgreesWithStore ==
  SavedAndSettled =>
    LET row == simulatorExams[vExam.id]
    IN /\ (vExam.score = JUndef) = (row.score = JUndef)
       /\ vExam.score # JUndef =>
            /\ vExam.score = row.score
            /\ vExam.timeTaken = row.timeTaken

(* ------------------------------------------------------------------ *)
(* C30                                                                  *)
(* ------------------------------------------------------------------ *)
\* C30: the series shown in the simulator view changes only through a
\* user action, a saved series being loaded or the return to the
\* generator: the completion of a generateExamSeries call that was in
\* flight when a saved series was loaded never replaces the series
\* shown, and the exam being taken always belongs to the series shown
C30_ShownSeriesChangesByUserOnly ==
  /\ [][(ShownSeries # NoValue /\ ShownSeries' # ShownSeries) =>
          (ShownSeries' = NoValue \/ uLoads' # uLoads)]_vars
  /\ [](uTaken # NoValue => uTaken = ShownSeries)

====
